---- MODULE Spec2Model ----
(***************************************************************************)
(* A model of the orchestration core of xiuxian_bot:                       *)
(*   core/scheduler.py   Scheduler  (key-addressed delayed tasks)          *)
(*   core/rate_limit.py  SlidingWindowRateLimiter, RateLimiter             *)
(*   core/dispatcher.py  Dispatcher (priority fan-out)                     *)
(*   app.py              the send path                                     *)
(*                                                                         *)
(* The program runs on one asyncio event loop.  A state of the model is    *)
(* the state of the program between two callbacks of the loop: a step of   *)
(* a task runs from one suspension point to the next without interleaving. *)
(* asyncio.Lock.acquire does not suspend when the lock is free, and no     *)
(* critical section of Scheduler holds an await, so the lock is always     *)
(* free between two steps and `async with self._lock` never suspends.      *)
(* Time is counted in whole ticks (seconds).                               *)
(***************************************************************************)
EXTENDS Integers, Sequences, FiniteSets, TLC

(***************************************************************************)
(* Bounds of the model.                                                    *)
(***************************************************************************)
MaxReg == 3
MaxTime == 1
MaxDelay == 1

Keys == {"k1", "k2"}
Delays == 0..MaxDelay
TaskIds == 1..MaxReg

\* The shapes an action callback can have:
\*   plain      returns without suspending
\*   await      suspends once on an awaitable (e.g. the transport), then returns
\*   raise      raises an Exception
\*   self       calls schedule() under its own key, then returns
\*   selfawait  calls schedule() under its own key, then awaits, then returns
ActKinds == {"plain", "await", "raise", "self", "selfawait"}

VARIABLES
  tasks,    \* Scheduler._tasks: key -> task id, 0 when the key is absent
  reg,      \* every asyncio.Task created by schedule(), by id
  nreg,     \* number of tasks created so far
  rq,       \* the event loop's FIFO of task steps that are ready to run
  now,      \* the clock (time.monotonic / loop.time), in ticks
  escaped,  \* tasks whose action's exception left Scheduler._run
  ca,       \* cancel_all: [st, snap, upto], the tasks it is gathering and the
            \* number of tasks that existed when it was called
  gmax,     \* RateLimiter: global_per_minute
  pmax,     \* RateLimiter: plugin_per_minute
  glob,     \* RateLimiter._global._events: the deque of admission times
  per,      \* RateLimiter._per_plugin: plugin -> deque of admission times
  sent,     \* the messages handed to the transport: [plugin, at, origin]
  res,      \* the last call on the limiter or the send path and its result
  dprio,    \* Dispatcher: the priority of each plugin given to the constructor
  den,      \* Dispatcher: the enabled flag of each plugin
  dorder,   \* Dispatcher._plugins: the plugins as the constructor sorted them
  dpos,     \* dispatch: position of the loop in _plugins, 0 when not running
  dacts,    \* dispatch: the local list `actions`
  dprod,    \* what each plugin's on_message did for the current event
  dfailed,  \* the plugins whose on_message has raised for an earlier event
  dret,     \* the outcome of the last dispatch call: [done, raised, acts]
  dn,       \* number of events given to dispatch so far
  dry,      \* app: config.dry_run
  hd,       \* app: the _on_event handler at work: [st, acts, pos]
  nev,      \* app: number of events so far; the handler is that of event nev
  hlog,     \* app: what _execute_action did with each action of that event
  tact,     \* app: the _scheduled closure of each task: the action it sends
  att,      \* app: per caller of _send, its calls and the last one's outcome
  bcfg,     \* biguan: the plugin's configuration
  bmsg,     \* biguan: the message given to on_message: [text, is_reply_to_me]
  bout,     \* biguan: what on_message returned: [called, acts]
  gcfg,     \* garden: the plugin's configuration: [spacing, base]
  gst,      \* garden: the plugin's flags: [seed_insufficient, warned, no_idle]
  gmsg,     \* garden: the last message given to on_message
  gout,     \* garden: what on_message returned for it
  xcfg,     \* xinggong: the plugin's configuration: [hm, retry, offset]
  xs,       \* xinggong: the plugin's fields
  xboot,    \* xinggong: where run() is in its bootstrap: "no", "io", "yes"
  xmsg,     \* xinggong: the last message given to on_message
  xout,     \* xinggong: what on_message did with it
  xfire,    \* xinggong: what the last firing of the ritual loop did
  xn,       \* xinggong: [ev, ticks], events and clock steps so far
  zcfg,     \* zongmen: the plugin's configuration: [dm, cg, catch, spacing]
  zs,       \* zongmen: the plugin's fields: [date, done, count, disabled]
  zboot,    \* zongmen: whether run() has called bootstrap, and when
  ztask,    \* zongmen: the _runner closure of each task and its progress
  zmsg,     \* zongmen: the last message given to on_message
  zn,       \* zongmen: [ev], the number of events so far
  lc        \* limiter construction: what the constructors were given and did

schedVars == <<tasks, reg, nreg, rq, escaped, ca>>
rlVars == <<gmax, pmax, glob, per, sent, res>>
dispVars == <<dprio, den, dorder, dpos, dacts, dprod, dfailed, dret, dn>>
appVars == <<dry, hd, nev, hlog, tact, att>>
bigVars == <<bcfg, bmsg, bout>>
garVars == <<gcfg, gst, gmsg, gout>>
xingVars == <<xcfg, xs, xboot, xmsg, xout, xfire, xn>>
zongVars == <<zcfg, zs, zboot, ztask, zmsg, zn>>
ctorVars == <<lc>>
notSched == <<rlVars, ctorVars, dispVars, appVars, bigVars, garVars, xingVars, zongVars>>
notRL == <<schedVars, ctorVars, dispVars, appVars, bigVars, garVars, xingVars, zongVars>>
notDisp == <<ctorVars, schedVars, rlVars, now, appVars, bigVars, garVars, xingVars, zongVars>>
notBig == <<schedVars, rlVars, now, ctorVars, dispVars, appVars, garVars, xingVars, zongVars>>
notGar == <<schedVars, rlVars, now, ctorVars, dispVars, appVars, bigVars, xingVars, zongVars>>
vars == <<tasks, reg, nreg, rq, now, escaped, ca, gmax, pmax, glob, per, sent, res,
          dprio, den, dorder, dpos, dacts, dprod, dfailed, dret, dn,
          dry, hd, nev, hlog, tact, att, bcfg, bmsg, bout, gcfg, gst, gmsg, gout,
          xcfg, xs, xboot, xmsg, xout, xfire, xn,
          zcfg, zs, zboot, ztask, zmsg, zn, lc>>

Plugins == {"a", "b"}
NoCall == [op |-> "none", p |-> "", ok |-> FALSE, val |-> 0, at |-> 0]

\* A task: the key, delay and state of its _run coroutine (new: not started,
\* sleep: in asyncio.sleep, act: suspended inside the action, done), whether a
\* cancellation is requested, when its timer is due, how often its action was
\* started, and how it ended.
NoTask ==
  [key |-> "", delay |-> 0, st |-> "none", cancel |-> FALSE,
   due |-> 0, runs |-> 0, out |-> "none"]

InQueue(Q, t) == \E i \in 1..Len(Q) : Q[i] = t

(***************************************************************************)
(* asyncio.Task.cancel(): a finished task is left alone; otherwise the     *)
(* cancellation is requested.  When the task waits on a pending future,    *)
(* the future is cancelled and the task's wake-up is queued; when its      *)
(* step is already queued, or it is the running task (cur), only the       *)
(* request is recorded.                                                    *)
(***************************************************************************)
TaskCancelReg(R, t) ==
  IF R[t].st = "done" THEN R ELSE [R EXCEPT ![t].cancel = TRUE]

TaskCancelRq(R, Q, t, cur) ==
  IF R[t].st = "done" \/ t = cur \/ InQueue(Q, t) THEN Q ELSE Append(Q, t)

(***************************************************************************)
(* Scheduler.schedule, lines 22-24: cancel the task registered under key.  *)
(***************************************************************************)
CancelOld_Skip(R, old) == R

CancelOld(R, old) ==
  IF old # 0 THEN TaskCancelReg(R, old) ELSE R

CancelOldRq(R, Q, old, cur) ==
  IF old # 0 THEN TaskCancelRq(R, Q, old, cur) ELSE Q

NewTask(k, d) ==
  [key |-> k, delay |-> d, st |-> "new", cancel |-> FALSE,
   due |-> 0, runs |-> 0, out |-> "none"]

(***************************************************************************)
(* Scheduler.schedule as called by task cur (0: a caller that is not a     *)
(* scheduled task).  The result is the scheduler's state after the call.   *)
(***************************************************************************)
DoSchedule(R, Q, T, n, k, d, cur) ==
  LET old == T[k]
      id == n + 1
      R1 == CancelOld(R, old)
      Q1 == CancelOldRq(R, Q, old, cur)
  IN  [reg |-> [R1 EXCEPT ![id] = NewTask(k, d)],
       rq |-> Append(Q1, id),
       tasks |-> [T EXCEPT ![k] = id],
       nreg |-> id]

(***************************************************************************)
(* Scheduler._run, lines 41-45: the finally block.  R is the task table    *)
(* while the finishing task is still running (its done() is False).        *)
(***************************************************************************)
Cleanup_Unconditional(R, T, k) == [T EXCEPT ![k] = 0]

Cleanup(R, T, k) ==
  LET task == T[k]
  IN  IF task # 0 /\ R[task].st = "done" THEN [T EXCEPT ![k] = 0] ELSE T

\* The task object once its coroutine has returned: its key and delay, how
\* often its action was started and how it ended remain of interest.
Finish(R, t, o) ==
  [R EXCEPT ![t] = [NoTask EXCEPT !.key = R[t].key, !.delay = R[t].delay,
                                  !.st = "done", !.runs = R[t].runs, !.out = o]]

(***************************************************************************)
(* Scheduler._run, lines 39-40: an Exception of the action is caught and   *)
(* logged.  The result is the set of exceptions that leave _run.           *)
(***************************************************************************)
CatchException_Missing(E, t) == E \cup {t}

CatchException(E, t) == E

SchedInit ==
  /\ tasks = [k \in Keys |-> 0]
  /\ reg = [t \in TaskIds |-> NoTask]
  /\ nreg = 0
  /\ rq = <<>>
  /\ now = 0
  /\ escaped = {}
  /\ ca = [st |-> "idle", snap |-> {}, upto |-> 0]

(***************************************************************************)
(* A caller outside the scheduler's tasks (event handling, bootstrap)      *)
(* calls schedule(key, delay, action).                                     *)
(***************************************************************************)
Schedule(k, d) ==
  /\ nreg < MaxReg
  /\ LET s == DoSchedule(reg, rq, tasks, nreg, k, d, 0)
     IN  /\ reg' = s.reg
         /\ rq' = s.rq
         /\ tasks' = s.tasks
         /\ nreg' = s.nreg
  /\ UNCHANGED <<now, escaped, ca>>
  /\ UNCHANGED notSched

(***************************************************************************)
(* First step of a task.  A task cancelled before its first step never     *)
(* enters the coroutine: neither the try nor the finally of _run runs.     *)
(* Otherwise _run reaches asyncio.sleep(delay): sleep(0) yields once and   *)
(* the task is ready again at once, a positive delay arms a timer.         *)
(***************************************************************************)
TaskStart(t) ==
  /\ rq # <<>> /\ Head(rq) = t
  /\ reg[t].st = "new"
  /\ IF reg[t].cancel
     THEN /\ reg' = Finish(reg, t, "cancelled")
          /\ rq' = Tail(rq)
     ELSE /\ reg' = [reg EXCEPT ![t].st = "sleep", ![t].due = now + reg[t].delay]
          /\ rq' = IF reg[t].delay = 0 THEN Append(Tail(rq), t) ELSE Tail(rq)
  /\ UNCHANGED <<tasks, nreg, now, escaped, ca>>
  /\ UNCHANGED notSched

(***************************************************************************)
(* The task wakes from asyncio.sleep.  Cancelled: CancelledError is raised *)
(* at the sleep, caught at line 37, and the finally block runs.  Otherwise *)
(* the action starts and runs to its first suspension or to its end.       *)
(***************************************************************************)
TaskWake(t) ==
  /\ rq # <<>> /\ Head(rq) = t
  /\ reg[t].st = "sleep"
  /\ LET k == reg[t].key
         Q == Tail(rq)
         R == [reg EXCEPT ![t].runs = @ + 1]
     IN
     IF reg[t].cancel
     THEN /\ tasks' = Cleanup(reg, tasks, k)
          /\ reg' = Finish(reg, t, "cancelled")
          /\ rq' = Q
          /\ UNCHANGED <<nreg, escaped>>
     ELSE
       \E a \in ActKinds :
          IF a = "plain"
          THEN /\ tasks' = Cleanup(R, tasks, k)
               /\ reg' = Finish(R, t, "completed")
               /\ rq' = Q
               /\ UNCHANGED <<nreg, escaped>>
          ELSE IF a = "raise"
          THEN /\ escaped' = CatchException(escaped, t)
               /\ tasks' = Cleanup(R, tasks, k)
               /\ reg' = Finish(R, t, "failed")
               /\ rq' = Q
               /\ UNCHANGED nreg
          ELSE IF a = "await"
          THEN /\ reg' = [R EXCEPT ![t].st = "act"]
               /\ rq' = Q
               /\ UNCHANGED <<tasks, nreg, escaped>>
          ELSE \* the action calls schedule() under its own key
               /\ nreg < MaxReg
               /\ \E d \in Delays :
                    LET s == DoSchedule(R, Q, tasks, nreg, k, d, t)
                    IN  /\ nreg' = s.nreg
                        /\ escaped' = escaped
                        /\ IF a = "self"
                           THEN \* the action returns; the task ends cancelled
                                \* when the call above asked to cancel it
                                /\ tasks' = Cleanup(s.reg, s.tasks, k)
                                /\ reg' = Finish(s.reg, t,
                                      IF s.reg[t].cancel THEN "cancelled" ELSE "completed")
                                /\ rq' = s.rq
                           ELSE \* the action awaits: a task asked to cancel is
                                \* woken at once with CancelledError
                                /\ tasks' = s.tasks
                                /\ reg' = [s.reg EXCEPT ![t].st = "act"]
                                /\ rq' = IF s.reg[t].cancel THEN Append(s.rq, t) ELSE s.rq
  /\ UNCHANGED <<now, ca>>
  /\ UNCHANGED notSched

\* The awaitable an action is suspended on completes: its wake-up is queued.
IoDone(t) ==
  /\ reg[t].st = "act"
  /\ ~reg[t].cancel
  /\ ~InQueue(rq, t)
  /\ rq' = Append(rq, t)
  /\ UNCHANGED <<tasks, reg, nreg, now, escaped, ca>>
  /\ UNCHANGED notSched

(***************************************************************************)
(* The task resumes inside its action.  Cancelled: CancelledError is       *)
(* raised at the action's await, leaves the action, is caught at line 37.  *)
(* Otherwise the action returns.  Either way the finally block runs.       *)
(***************************************************************************)
TaskResume(t) ==
  /\ rq # <<>> /\ Head(rq) = t
  /\ reg[t].st = "act"
  /\ tasks' = Cleanup(reg, tasks, reg[t].key)
  /\ reg' = Finish(reg, t, IF reg[t].cancel THEN "cancelled" ELSE "completed")
  /\ rq' = Tail(rq)
  /\ UNCHANGED <<nreg, now, escaped, ca>>
  /\ UNCHANGED notSched

(***************************************************************************)
(* Scheduler.cancel_all: snapshot and clear the map, cancel every task of  *)
(* the snapshot in the map's order, then gather them.  It is called once,   *)
(* when the program shuts down (app.py, line 212).                         *)
(***************************************************************************)
Orders(S) ==
  {s \in [1..Cardinality(S) -> S] : \A i, j \in 1..Cardinality(S) : s[i] = s[j] => i = j}

\* cancel_all without the loop of line 51: nothing is cancelled.
CancelEachReg_None(R, s) == R

RECURSIVE CancelEachReg(_, _)
CancelEachReg(R, s) ==
  IF s = <<>> THEN R ELSE CancelEachReg(TaskCancelReg(R, Head(s)), Tail(s))

RECURSIVE CancelEachRq(_, _, _)
CancelEachRq(R, Q, s) ==
  IF s = <<>> THEN Q ELSE CancelEachRq(R, TaskCancelRq(R, Q, Head(s), 0), Tail(s))

CancelAll ==
  /\ ca.st = "idle"
  /\ LET snap == {tasks[k] : k \in DOMAIN tasks} \ {0}
     IN  /\ tasks' = [k \in DOMAIN tasks |-> 0]
         /\ \E s \in Orders(snap) :
              /\ reg' = CancelEachReg(reg, s)
              /\ rq' = CancelEachRq(reg, rq, s)
         /\ ca' = IF snap = {} THEN [st |-> "returned", snap |-> {}, upto |-> nreg]
                  ELSE [st |-> "gather", snap |-> snap, upto |-> nreg]
  /\ UNCHANGED <<nreg, now, escaped>>
  /\ UNCHANGED notSched

\* asyncio.gather returns once every task of the snapshot is done.
CancelAllReturn ==
  /\ ca.st = "gather"
  /\ \A t \in ca.snap : reg[t].st = "done"
  /\ ca' = [st |-> "returned", snap |-> {}, upto |-> ca.upto]
  /\ UNCHANGED <<tasks, reg, nreg, rq, now, escaped>>
  /\ UNCHANGED notSched

(***************************************************************************)
(* Time passes only while the loop is idle: nothing is ready to run.  The  *)
(* clock advances by one tick; the timers due by then expire and the       *)
(* wake-ups of their tasks are queued, in the order of their registration. *)
(***************************************************************************)
DueAt(R, m) == {t \in DOMAIN R : R[t].st = "sleep" /\ ~R[t].cancel /\ R[t].due <= m}

RECURSIVE Ascending(_)
Ascending(S) ==
  IF S = {} THEN <<>>
  ELSE LET m == CHOOSE x \in S : \A y \in S : x <= y
       IN  <<m>> \o Ascending(S \ {m})

Tick ==
  /\ now < MaxTime
  /\ rq = <<>>
  /\ now' = now + 1
  /\ rq' = Ascending(DueAt(reg, now + 1))
  /\ UNCHANGED <<tasks, reg, nreg, escaped, ca>>
  /\ UNCHANGED notSched

SchedNext ==
  \/ \E k \in Keys, d \in Delays : Schedule(k, d)
  \/ \E t \in TaskIds : TaskStart(t)
  \/ \E t \in TaskIds : TaskWake(t)
  \/ \E t \in TaskIds : IoDone(t)
  \/ \E t \in TaskIds : TaskResume(t)
  \/ CancelAll
  \/ CancelAllReturn
  \/ Tick

(***************************************************************************)
(*                          core/rate_limit.py                             *)
(***************************************************************************)
WindowSeconds == 60
MaxClock == 60
MaxG == 2
MaxP == 2
\* The clock is observed every third of a window.
TickSteps == {WindowSeconds \div 3}

Max2(a, b) == IF a >= b THEN a ELSE b

\* SlidingWindowRateLimiter._prune: drop the events at the left end of the
\* deque that are not younger than the window.
RECURSIVE Prune(_, _)
Prune(ev, t) ==
  IF ev # <<>> /\ Head(ev) <= t - WindowSeconds THEN Prune(Tail(ev), t) ELSE ev

\* can_allow_at: the answer; the deque is left pruned.
CanAllowAt(ev, max, t) == Len(Prune(ev, t)) < max

\* reserve_at
ReserveAt(ev, t) == Append(ev, t)

\* SlidingWindowRateLimiter.allow: [ok, ev]
SWAllow(ev, max, t) ==
  IF ~CanAllowAt(ev, max, t)
  THEN [ok |-> FALSE, ev |-> Prune(ev, t)]
  ELSE [ok |-> TRUE, ev |-> ReserveAt(Prune(ev, t), t)]

\* next_allowed_in_at: the wait; the deque is left pruned.
NextAllowedInAt_Newest(ev, max, t) ==
  LET e == Prune(ev, t)
  IN  IF Len(e) < max THEN 0 ELSE Max2(0, (e[Len(e)] + WindowSeconds) - t)

NextAllowedInAt(ev, max, t) ==
  LET e == Prune(ev, t)
  IN  IF Len(e) < max THEN 0 ELSE Max2(0, (e[1] + WindowSeconds) - t)

(***************************************************************************)
(* RateLimiter.allow(plugin) at time t on the windows G (global) and       *)
(* P (per plugin): [ok, glob, per].  `or` short-circuits: the plugin's     *)
(* window is looked at, and pruned, only when the global one has room.     *)
(***************************************************************************)
RLAllow_NonAtomic(G, P, p, t) ==
  LET g == SWAllow(G, gmax, t)
  IN  IF ~g.ok
      THEN [ok |-> FALSE, glob |-> g.ev, per |-> P]
      ELSE LET q == SWAllow(P[p], pmax, t)
           IN  [ok |-> q.ok, glob |-> g.ev, per |-> [P EXCEPT ![p] = q.ev]]

RLAllow_PluginOnly(G, P, p, t) ==
  IF ~CanAllowAt(P[p], pmax, t)
  THEN [ok |-> FALSE, glob |-> G, per |-> [P EXCEPT ![p] = Prune(@, t)]]
  ELSE [ok |-> TRUE, glob |-> ReserveAt(Prune(G, t), t),
        per |-> [P EXCEPT ![p] = ReserveAt(Prune(@, t), t)]]

RLAllow(G, P, p, t) ==
  IF ~CanAllowAt(G, gmax, t)
  THEN [ok |-> FALSE, glob |-> Prune(G, t), per |-> P]
  ELSE IF ~CanAllowAt(P[p], pmax, t)
  THEN [ok |-> FALSE, glob |-> Prune(G, t), per |-> [P EXCEPT ![p] = Prune(@, t)]]
  ELSE [ok |-> TRUE, glob |-> ReserveAt(Prune(G, t), t),
        per |-> [P EXCEPT ![p] = ReserveAt(Prune(@, t), t)]]

\* RateLimiter.next_allowed_in(plugin): the larger of the two windows' waits.
RLNextAllowedIn(G, P, p, t) ==
  Max2(NextAllowedInAt(G, gmax, t), NextAllowedInAt(P[p], pmax, t))

\* The configurations of the limiter: every pair of valid bounds.
RLInit ==
  /\ gmax \in 1..MaxG
  /\ pmax \in 1..MaxP
  /\ glob = <<>>
  /\ per = [p \in Plugins |-> <<>>]
  /\ sent = <<>>
  /\ res = NoCall

\* A direct call of RateLimiter.allow(p).
Allow(p) ==
  /\ LET r == RLAllow(glob, per, p, now)
     IN  /\ glob' = r.glob
         /\ per' = r.per
         /\ res' = [op |-> "allow", p |-> p, ok |-> r.ok, val |-> 0, at |-> now]
  /\ UNCHANGED <<gmax, pmax, sent, now>>
  /\ UNCHANGED notRL

\* A call of RateLimiter.next_allowed_in(p): both windows are pruned.
NextAllowedIn(p) ==
  /\ glob' = Prune(glob, now)
  /\ per' = [per EXCEPT ![p] = Prune(@, now)]
  /\ res' = [op |-> "next", p |-> p, ok |-> FALSE,
             val |-> RLNextAllowedIn(glob, per, p, now), at |-> now]
  /\ UNCHANGED <<gmax, pmax, sent, now>>
  /\ UNCHANGED notRL

(***************************************************************************)
(* app.run._send, lines 122-137, up to the hand-over to the transport.     *)
(* origin tells who called: the handling of an inbound event ("event") or  *)
(* the firing of a scheduled task ("timer").  Nothing awaits between the   *)
(* limiter's answer and the call of adapter.send_message.                  *)
(***************************************************************************)
SendAdmit_NoLimiter(G, P, p, t) == [ok |-> TRUE, glob |-> G, per |-> P]

SendAdmit(G, P, p, t) == RLAllow(G, P, p, t)

Send(p, origin) ==
  /\ LET r == SendAdmit(glob, per, p, now)
     IN  /\ glob' = r.glob
         /\ per' = r.per
         /\ sent' = IF r.ok
                    THEN Append(sent, [plugin |-> p, at |-> now, origin |-> origin])
                    ELSE sent
         /\ res' = [op |-> "send", p |-> p, ok |-> r.ok, val |-> 0, at |-> now]
  /\ UNCHANGED <<gmax, pmax, now>>
  /\ UNCHANGED notRL

\* Time passes.
TickRL(d) ==
  /\ now + d <= MaxClock
  /\ now' = now + d
  /\ UNCHANGED rlVars
  /\ UNCHANGED notRL

RLNext ==
  \/ \E p \in Plugins : Allow(p)
  \/ \E p \in Plugins : NextAllowedIn(p)
  \/ \E p \in Plugins, o \in {"event", "timer"} : Send(p, o)
  \/ \E d \in TickSteps : TickRL(d)

(***************************************************************************)
(* core/rate_limit.py, the constructors.  A constructor either raises      *)
(* ValueError, and no object exists, or returns the object.                *)
(***************************************************************************)
MaxWindow == 2

\* The bounds the constructors are tried with: invalid ones included.
EventArgs == {-1} \cup 0..MaxG
PluginArgs == {-1} \cup 0..MaxP
WindowArgs == {-1} \cup 0..MaxWindow

\* SlidingWindowRateLimiter.__init__, lines 8-15.
NewSlidingWindow_NoWindowCheck(max, win) ==
  IF max < 1 THEN [err |-> "ValueError", built |-> FALSE, max |-> 0, win |-> 0, events |-> <<>>]
  ELSE [err |-> "none", built |-> TRUE, max |-> max, win |-> win, events |-> <<>>]

NewSlidingWindow(max, win) ==
  IF max < 1 THEN [err |-> "ValueError", built |-> FALSE, max |-> 0, win |-> 0, events |-> <<>>]
  ELSE IF win < 1
  THEN [err |-> "ValueError", built |-> FALSE, max |-> 0, win |-> 0, events |-> <<>>]
  ELSE [err |-> "none", built |-> TRUE, max |-> max, win |-> win, events |-> <<>>]

\* RateLimiter.__init__, lines 48-51: the global window is built, the
\* plugin bound is stored.
NewRateLimiter(g, p) ==
  LET G == NewSlidingWindow(g, WindowSeconds)
  IN  [err |-> G.err, built |-> G.built]

\* RateLimiter._limiter_for, lines 53-58: the plugin's window is built at
\* the first call for the plugin.
LimiterFor(made, p) ==
  IF p \in made THEN [err |-> "none", made |-> made]
  ELSE LET L == NewSlidingWindow(pmax, WindowSeconds)
       IN  [err |-> L.err, made |-> IF L.built THEN made \cup {p} ELSE made]

\* No constructor has been called.
NoCtor ==
  [sw |-> [called |-> FALSE, max |-> 0, win |-> 0,
           out |-> [err |-> "none", built |-> FALSE, max |-> 0, win |-> 0, events |-> <<>>]],
   rl |-> [called |-> FALSE, g |-> 0, p |-> 0, err |-> "none", built |-> FALSE],
   made |-> {},
   call |-> [op |-> "none", err |-> "none"]]

CtorIdle == lc = NoCtor

CtorInit ==
  /\ lc = NoCtor
  /\ gmax = 0 /\ pmax = 0
  /\ glob = <<>>
  /\ per = [p \in Plugins |-> <<>>]
  /\ sent = <<>>
  /\ res = NoCall

\* SlidingWindowRateLimiter(max_events=m, window_seconds=w) is evaluated.
SWConstruct(m, w) ==
  /\ ~lc.sw.called
  /\ lc' = [lc EXCEPT !.sw = [called |-> TRUE, max |-> m, win |-> w,
                              out |-> NewSlidingWindow(m, w)]]
  /\ UNCHANGED <<rlVars, now>>
  /\ UNCHANGED <<schedVars, dispVars, appVars, bigVars, garVars, xingVars, zongVars>>

\* RateLimiter(global_per_minute=g, plugin_per_minute=p) is evaluated.
RLConstruct(g, p) ==
  /\ ~lc.rl.called
  /\ LET r == NewRateLimiter(g, p)
     IN  /\ lc' = [lc EXCEPT !.rl = [called |-> TRUE, g |-> g, p |-> p,
                                     err |-> r.err, built |-> r.built]]
         /\ gmax' = IF r.built THEN g ELSE gmax
         /\ pmax' = IF r.built THEN p ELSE pmax
  /\ UNCHANGED <<glob, per, sent, res, now>>
  /\ UNCHANGED <<schedVars, dispVars, appVars, bigVars, garVars, xingVars, zongVars>>

\* allow(p) on the constructed RateLimiter, lines 60-68.
CtorAllow(p) ==
  /\ lc.rl.built
  /\ LET l == LimiterFor(lc.made, p)
     IN  /\ lc' = [lc EXCEPT !.made = l.made, !.call = [op |-> "allow", err |-> l.err]]
         /\ IF l.err # "none"
            THEN UNCHANGED <<glob, per, res>>
            ELSE LET r == RLAllow(glob, per, p, now)
                 IN  /\ glob' = r.glob
                     /\ per' = r.per
                     /\ res' = [op |-> "allow", p |-> p, ok |-> r.ok, val |-> 0, at |-> now]
  /\ UNCHANGED <<gmax, pmax, sent, now>>
  /\ UNCHANGED <<schedVars, dispVars, appVars, bigVars, garVars, xingVars, zongVars>>

\* next_allowed_in(p) on the constructed RateLimiter, lines 70-73.
CtorNextAllowedIn(p) ==
  /\ lc.rl.built
  /\ LET l == LimiterFor(lc.made, p)
     IN  /\ lc' = [lc EXCEPT !.made = l.made, !.call = [op |-> "next", err |-> l.err]]
         /\ IF l.err # "none"
            THEN UNCHANGED <<glob, per, res>>
            ELSE /\ glob' = Prune(glob, now)
                 /\ per' = [per EXCEPT ![p] = Prune(@, now)]
                 /\ res' = [op |-> "next", p |-> p, ok |-> FALSE,
                            val |-> RLNextAllowedIn(glob, per, p, now), at |-> now]
  /\ UNCHANGED <<gmax, pmax, sent, now>>
  /\ UNCHANGED <<schedVars, dispVars, appVars, bigVars, garVars, xingVars, zongVars>>

CtorNext ==
  \/ \E m \in EventArgs, w \in WindowArgs : SWConstruct(m, w)
  \/ \E g \in EventArgs, p \in PluginArgs : RLConstruct(g, p)
  \/ \E p \in Plugins : CtorAllow(p)
  \/ \E p \in Plugins : CtorNextAllowedIn(p)
  \/ \E d \in TickSteps : TickRL(d)

(***************************************************************************)
(*                          core/dispatcher.py                             *)
(***************************************************************************)
MaxPrio == 1
MaxActs == 1
MaxEvents == 2

\* The plugins in the order of the list given to Dispatcher(plugins, logger).
DPlugins == <<"p1", "p2", "p3", "p4">>
DIds == 1..Len(DPlugins)

\* What on_message did: it raised, was not called, or returned n actions
\* (None and the empty list both count as 0).
Raised == -1
NotCalled == -2

\* sorted(plugins, key=priority, reverse=True): a stable sort, so that plugins
\* of equal priority keep the order of the list.  x is put behind every
\* element whose priority is not lower.
RECURSIVE InsertByPriority_Ascending(_, _, _)
InsertByPriority_Ascending(s, x, prio) ==
  IF s = <<>> THEN <<x>>
  ELSE IF prio[Head(s)] <= prio[x]
  THEN <<Head(s)>> \o InsertByPriority_Ascending(Tail(s), x, prio)
  ELSE <<x>> \o s

RECURSIVE InsertByPriority(_, _, _)
InsertByPriority(s, x, prio) ==
  IF s = <<>> THEN <<x>>
  ELSE IF prio[Head(s)] >= prio[x]
  THEN <<Head(s)>> \o InsertByPriority(Tail(s), x, prio)
  ELSE <<x>> \o s

RECURSIVE SortedPlugins(_, _)
SortedPlugins(n, prio) ==
  IF n = 0 THEN <<>> ELSE InsertByPriority(SortedPlugins(n - 1, prio), n, prio)

\* Dispatcher.dispatch, lines 20-22: the plugin's exception is caught and
\* logged and the loop continues: [pos, raised], the next position of the
\* loop and whether dispatch itself raises.
OnPluginError_Propagate(pos, len) == [pos |-> len + 1, raised |-> TRUE]

OnPluginError(pos, len) == [pos |-> pos + 1, raised |-> FALSE]

\* Dispatcher.dispatch, line 16: a plugin that is not enabled is skipped.
IsSkipped(p) == ~den[p]

\* The actions a plugin returns: its j-th action is [plugin, n].
ActionsOf(p, k) == [j \in 1..k |-> [plugin |-> p, n |-> j]]

DispInit ==
  /\ dprio \in [DIds -> 0..MaxPrio]
  /\ den \in [DIds -> BOOLEAN]
  /\ dorder = SortedPlugins(Len(DPlugins), dprio)
  /\ dpos = 0
  /\ dacts = <<>>
  /\ dprod = [p \in DIds |-> NotCalled]
  /\ dfailed = {}
  /\ dret = [done |-> FALSE, raised |-> FALSE, acts |-> <<>>]
  /\ dn = 0

\* dispatch(ctx) is called for the next inbound event.
DispatchBegin ==
  /\ dpos = 0
  /\ dn < MaxEvents
  /\ dn' = dn + 1
  /\ dpos' = 1
  /\ dacts' = <<>>
  /\ dfailed' = dfailed \cup {p \in DIds : dprod[p] = Raised}
  /\ dprod' = [p \in DIds |-> NotCalled]
  /\ dret' = [done |-> FALSE, raised |-> FALSE, acts |-> <<>>]
  /\ UNCHANGED <<dprio, den, dorder>>
  /\ UNCHANGED notDisp

\* One round of the loop over _plugins; b is what on_message does.
DispatchStep(b) ==
  /\ dpos \in 1..Len(dorder)
  /\ LET p == dorder[dpos]
     IN  IF IsSkipped(p)
         THEN /\ b = 0
              /\ dpos' = dpos + 1
              /\ UNCHANGED <<dacts, dprod, dret>>
         ELSE IF b = Raised
         THEN LET e == OnPluginError(dpos, Len(dorder))
              IN  /\ dpos' = e.pos
                  /\ dret' = [dret EXCEPT !.raised = e.raised]
                  /\ dprod' = [dprod EXCEPT ![p] = Raised]
                  /\ UNCHANGED dacts
         ELSE /\ dpos' = dpos + 1
              /\ dacts' = dacts \o ActionsOf(p, b)
              /\ dprod' = [dprod EXCEPT ![p] = b]
              /\ UNCHANGED dret
  /\ UNCHANGED <<dprio, den, dorder, dfailed, dn>>
  /\ UNCHANGED notDisp

\* The loop is over: dispatch returns `actions`, or has raised.
DispatchEnd ==
  /\ dpos = Len(dorder) + 1
  /\ dpos' = 0
  /\ dret' = [done |-> TRUE, raised |-> dret.raised,
              acts |-> IF dret.raised THEN <<>> ELSE dacts]
  /\ UNCHANGED <<dprio, den, dorder, dacts, dprod, dfailed, dn>>
  /\ UNCHANGED notDisp

DispNext ==
  \/ DispatchBegin
  \/ \E b \in {Raised} \cup (0..MaxActs) : DispatchStep(b)
  \/ DispatchEnd

(***************************************************************************)
(*             plugins/biguan.py and domain/parsers.py                     *)
(*                                                                         *)
(* A text is a sequence of tokens: the phrases the plugin looks for, the   *)
(* operator's name, decimal digits, the units, and blank space.            *)
(***************************************************************************)
MaxText == 4
MaxBuffer == 1
MaxJitter == 1

Digits == {"0", "1"}
\* dazuo: "打坐调息", lingqi: "灵气尚未平复", reset: "冷却时间被重置",
\* me: config.my_name, min: "分钟", sec: "秒", sp: white space
Tokens == {"dazuo", "lingqi", "reset", "me", "min", "sec", "sp"} \cup Digits
BTexts == UNION {[1..n -> Tokens] : n \in 0..MaxText}
BMessages == [text : BTexts, is_reply_to_me : BOOLEAN]

\* The jitter ranges random.randint accepts: min <= max.
JitterRanges == {r \in (0..MaxJitter) \X (0..MaxJitter) : r[1] <= r[2]}
BConfigs ==
  {[buffer |-> b, cjmin |-> c[1], cjmax |-> c[2], rjmin |-> r[1], rjmax |-> r[2]] :
     b \in 0..MaxBuffer, c \in JitterRanges, r \in JitterRanges}

BiguanName == "biguan"
BiguanKey == "biguan.next"
\* config.action_cmd_biguan
BiguanCmd == "cmd_biguan"
None == -1

\* `phrase in text`
Contains(text, w) == \E i \in 1..Len(text) : text[i] = w

DigitVal(c) == IF c = "1" THEN 1 ELSE 0

\* int() of the digits text[i..j]
RECURSIVE IntOf(_, _, _)
IntOf(text, i, j) ==
  IF j < i THEN 0 ELSE IntOf(text, i, j - 1) * 10 + DigitVal(text[j])

\* A match of (\d+)\s*unit that starts at i: digits text[i..j], then white
\* space up to k, then the unit.  The greedy \d+ takes every digit that
\* follows, so j is the end of the run of digits.
MatchesAt(text, unit, i) ==
  {j \in i..Len(text) :
     /\ \A d \in i..j : text[d] \in Digits
     /\ \E k \in j..(Len(text) - 1) :
          /\ \A w \in (j + 1)..k : text[w] = "sp"
          /\ text[k + 1] = unit}

\* re.search(r"(\d+)\s*unit", text): the leftmost match, as int(group(1)),
\* or None.
Search(text, unit) ==
  LET starts == {i \in 1..Len(text) : MatchesAt(text, unit, i) # {}}
  IN  IF starts = {} THEN None
      ELSE LET i == CHOOSE x \in starts : \A y \in starts : x <= y
               j == CHOOSE x \in MatchesAt(text, unit, i) :
                      \A y \in MatchesAt(text, unit, i) : y <= x
           IN  IntOf(text, i, j)

\* parsers.parse_biguan_cooldown_minutes
ParseBiguanCooldownMinutes(text) ==
  LET m == Search(text, "min")
  IN  IF m = None THEN None ELSE IF m > 0 THEN m ELSE None

\* parsers.parse_lingqi_cooldown_seconds
ParseLingqiCooldownSeconds(text) ==
  LET mm == Search(text, "min")
      ss == Search(text, "sec")
      total == (IF mm = None THEN 0 ELSE mm) * 60 + (IF ss = None THEN 0 ELSE ss)
  IN  IF total > 0 THEN total ELSE None

\* The action both branches return.
BiguanAction(delay) ==
  [plugin |-> BiguanName, text |-> BiguanCmd, delay |-> delay, key |-> BiguanKey]

\* The gate of both branches: my_name in text or ctx.is_reply_to_me.
Gate_Open(m) == TRUE

Gate(m) == Contains(m.text, "me") \/ m.is_reply_to_me

\* The delay of the throttled branch, lines 61-64.
RetryDelay_Buffered(c, total, j) == total + c.buffer + j

RetryDelay(c, total, j) == total + j

(***************************************************************************)
(* AutoBiguanPlugin.on_message with configuration c on message m, when     *)
(* random.randint draws jc in the first branch and jr in the second: the   *)
(* list of actions returned (None counts as the empty list).               *)
(***************************************************************************)
BiguanOnMessage(c, m, jc, jr) ==
  IF Contains(m.text, "dazuo") /\ Gate(m)
  THEN LET minutes == ParseBiguanCooldownMinutes(m.text)
       IN  IF minutes = None THEN <<>>
           ELSE <<BiguanAction(minutes * 60 + c.buffer + jc)>>
  ELSE IF Contains(m.text, "lingqi") /\ Gate(m)
  THEN LET total == ParseLingqiCooldownSeconds(m.text)
       IN  IF total = None THEN <<>>
           ELSE <<BiguanAction(RetryDelay(c, total, jr))>>
  ELSE <<>>

BigInit ==
  /\ bcfg \in BConfigs
  /\ bmsg \in BMessages
  /\ bout = [called |-> FALSE, acts |-> <<>>]

BigIdle ==
  /\ bcfg = [buffer |-> 0, cjmin |-> 0, cjmax |-> 0, rjmin |-> 0, rjmax |-> 0]
  /\ bmsg = [text |-> <<>>, is_reply_to_me |-> FALSE]
  /\ bout = [called |-> FALSE, acts |-> <<>>]

\* on_message is called on the message.
OnMessage ==
  /\ ~bout.called
  /\ \E jc \in bcfg.cjmin..bcfg.cjmax, jr \in bcfg.rjmin..bcfg.rjmax :
       bout' = [called |-> TRUE, acts |-> BiguanOnMessage(bcfg, bmsg, jc, jr)]
  /\ UNCHANGED <<bcfg, bmsg>>
  /\ UNCHANGED notBig

BigNext == OnMessage

(***************************************************************************)
(*                          plugins/garden.py                              *)
(***************************************************************************)
MaxSpacing == 2
MaxRemaining == 2
MaxBase == 1
MatureCheckBuffer == 10

\* GardenStatus as the plugin reads it (has_growing is never read);
\* min_remaining is None or a positive number of seconds.
GStatuses ==
  [has_idle : BOOLEAN, has_mature : BOOLEAN, has_insect : BOOLEAN, has_weed : BOOLEAN,
   has_drought : BOOLEAN, min_remaining : {None} \cup (1..MaxRemaining)]
NoStatus == [none |-> TRUE]

\* The reply texts on_message looks for:
\*   noidle "你的药园中已无空闲的灵田", short "数量不足" with "种子",
\*   sown "播种成功", harvested "一键采药完成"
GReplies == {"noidle", "short", "sown", "harvested"}

\* A message: whether the stripped text is blank, starts with "." or is
\* other text; the reply texts it holds; what parse_garden_status makes of it.
GMessages ==
  [lead : {"blank", "dot", "text"}, replies : SUBSET GReplies, status : {NoStatus}]
    \cup [lead : {"text"}, replies : {{}, {"harvested"}}, status : GStatuses]
NoMessage == [lead |-> "blank", replies |-> {}, status |-> NoStatus]

GConfigs ==
  [spacing : {0, MaxSpacing}, base : {0, MaxBase, MatureCheckBuffer + MaxRemaining}]

GardenName == "garden"
GAction(text, delay, key) ==
  [plugin |-> GardenName, text |-> text, delay |-> delay, key |-> key]

Min2(a, b) == IF a <= b THEN a ELSE b

\* _next_poll_delay_seconds
NextPollDelay_NoFloor(c, status) ==
  IF status.min_remaining = None THEN c.base
  ELSE Min2(c.base, status.min_remaining + MatureCheckBuffer)

NextPollDelay(c, status) ==
  IF status.min_remaining = None THEN c.base
  ELSE Max2(1, Min2(c.base, status.min_remaining + MatureCheckBuffer))

\* The sow action, lines 93-101 and 185-193.
SowAction(delay) == GAction("cmd_sow", delay, "garden.action.sow")

\* The fixes in the order of lines 135-181: whether the condition is
\* present, the command and the key.
FixOrder_WeedFirst(status) ==
  <<[on |-> status.has_weed, text |-> "cmd_weed", key |-> "garden.action.weed"],
    [on |-> status.has_insect, text |-> "cmd_insect", key |-> "garden.action.insect"],
    [on |-> status.has_drought, text |-> "cmd_water", key |-> "garden.action.water"],
    [on |-> status.has_mature, text |-> "cmd_harvest", key |-> "garden.action.harvest"]>>

FixOrder(status) ==
  <<[on |-> status.has_insect, text |-> "cmd_insect", key |-> "garden.action.insect"],
    [on |-> status.has_weed, text |-> "cmd_weed", key |-> "garden.action.weed"],
    [on |-> status.has_drought, text |-> "cmd_water", key |-> "garden.action.water"],
    [on |-> status.has_mature, text |-> "cmd_harvest", key |-> "garden.action.harvest"]>>

\* Lines 131-195 from the i-th fix on: acts is the list so far and delay the
\* running delay.  After harvest the list is returned as it is; after the
\* last fix the sow action is appended when sowing is possible.
RECURSIVE StatusActions(_, _, _, _, _, _)
StatusActions(c, st, status, i, acts, delay) ==
  LET fixes == FixOrder(status)
  IN  IF i > Len(fixes)
      THEN IF status.has_idle /\ ~st.seed_insufficient /\ ~st.no_idle
           THEN Append(acts, SowAction(delay))
           ELSE acts
      ELSE IF ~fixes[i].on
      THEN StatusActions(c, st, status, i + 1, acts, delay)
      ELSE IF fixes[i].text = "cmd_harvest"
      THEN Append(acts, GAction(fixes[i].text, delay, fixes[i].key))
      ELSE StatusActions(c, st, status, i + 1,
                         Append(acts, GAction(fixes[i].text, delay, fixes[i].key)),
                         delay + c.spacing)

\* Lines 88-101: the reply to the harvest-completion text.
HarvestReply_Always(c, st) ==
  [st |-> [st EXCEPT !.no_idle = FALSE], acts |-> <<SowAction(c.spacing)>>]

HarvestReply(c, st) ==
  [st |-> [st EXCEPT !.no_idle = FALSE],
   acts |-> IF st.seed_insufficient THEN <<>> ELSE <<SowAction(c.spacing)>>]

(***************************************************************************)
(* AutoGardenPlugin.on_message in state st on message m: [st, acts], the   *)
(* flags afterwards and the actions returned (None as the empty list).     *)
(***************************************************************************)
GardenOnMessage_PollOnReply(c, st, m) ==
  IF m.lead = "blank" THEN [st |-> st, acts |-> <<>>]
  ELSE IF m.lead = "dot" THEN [st |-> st, acts |-> <<>>]
  ELSE IF "noidle" \in m.replies
  THEN [st |-> [st EXCEPT !.no_idle = TRUE], acts |-> <<>>]
  ELSE IF "short" \in m.replies
  THEN [st |-> [st EXCEPT !.seed_insufficient = TRUE, !.warned = TRUE], acts |-> <<>>]
  ELSE IF "sown" \in m.replies
  THEN [st |-> [st EXCEPT !.no_idle = FALSE], acts |-> <<>>]
  ELSE IF "harvested" \in m.replies
  THEN [st |-> HarvestReply(c, st).st,
        acts |-> <<GAction("cmd_status", MatureCheckBuffer, "garden.poll")>>
                   \o HarvestReply(c, st).acts]
  ELSE IF m.status = NoStatus THEN [st |-> st, acts |-> <<>>]
  ELSE [st |-> st,
        acts |-> StatusActions(c, st, m.status, 1,
                               <<GAction("cmd_status", NextPollDelay(c, m.status),
                                         "garden.poll")>>, 0)]

GardenOnMessage(c, st, m) ==
  IF m.lead = "blank" THEN [st |-> st, acts |-> <<>>]
  ELSE IF m.lead = "dot" THEN [st |-> st, acts |-> <<>>]
  ELSE IF "noidle" \in m.replies
  THEN [st |-> [st EXCEPT !.no_idle = TRUE], acts |-> <<>>]
  ELSE IF "short" \in m.replies
  THEN [st |-> [st EXCEPT !.seed_insufficient = TRUE, !.warned = TRUE], acts |-> <<>>]
  ELSE IF "sown" \in m.replies
  THEN [st |-> [st EXCEPT !.no_idle = FALSE], acts |-> <<>>]
  ELSE IF "harvested" \in m.replies
  THEN HarvestReply(c, st)
  ELSE IF m.status = NoStatus THEN [st |-> st, acts |-> <<>>]
  ELSE [st |-> st,
        acts |-> StatusActions(c, st, m.status, 1,
                               <<GAction("cmd_status", NextPollDelay(c, m.status),
                                         "garden.poll")>>, 0)]

GarInit ==
  /\ gcfg \in GConfigs
  /\ gst = [seed_insufficient |-> FALSE, warned |-> FALSE, no_idle |-> FALSE]
  /\ gmsg = NoMessage
  /\ gout = [n |-> 0, acts |-> <<>>, before |-> gst]

GarIdle ==
  /\ gcfg = [spacing |-> 0, base |-> MaxBase]
  /\ gst = [seed_insufficient |-> FALSE, warned |-> FALSE, no_idle |-> FALSE]
  /\ gmsg = NoMessage
  /\ gout = [n |-> 0, acts |-> <<>>, before |-> gst]

\* on_message is called on message m; gout keeps the flags it found.
GardenMessage(m) ==
  /\ LET r == GardenOnMessage(gcfg, gst, m)
     IN  /\ gst' = r.st
         /\ gout' = [n |-> 1, acts |-> r.acts, before |-> gst]
  /\ gmsg' = m
  /\ UNCHANGED gcfg
  /\ UNCHANGED notGar

GarNext == \E m \in GMessages : GardenMessage(m)

(***************************************************************************)
(*                    app.py: events, actions, the send path               *)
(***************************************************************************)
MaxAppEvents == 2
MaxBatch == 2
MaxWait == 2
MaxAppTime == 2

Texts == {"x"}
\* SendAction.key: "" stands for None (and for the empty string, which
\* `action.key or ...` treats alike).
ActionKeys == {"", "k1"}
AppDelays == {0, 1, MaxWait}
AppPlugins == {"a"}
SendActions == [plugin : AppPlugins, text : Texts, delay : AppDelays, key : ActionKeys]
Batches == UNION {[1..n -> SendActions] : n \in 0..MaxBatch}
AppEvents == 1..MaxAppEvents

\* _execute_action, line 156: the key a delayed action is registered under.
KeyOf_Fallback(a) == a.plugin \o ":" \o a.text

KeyOf(a) == IF a.key # "" THEN a.key ELSE a.plugin \o ":" \o a.text

\* The keys of the remediation plugin's actions.
GardenKeys ==
  {"garden.poll", "garden.action.sow"} \cup {FixOrder(s)[i].key : s \in GStatuses, i \in 1..4}

AppKeys == {KeyOf(a) : a \in SendActions} \cup {BiguanKey} \cup GardenKeys

\* The status snapshots the remediation plugin is shown in the app: pests
\* or nothing to fix, with every remaining time.
AppGardenMessages ==
  {m \in GMessages :
     /\ m.status # NoStatus /\ m.replies = {}
     /\ ~m.status.has_idle /\ ~m.status.has_mature
     /\ ~m.status.has_weed /\ ~m.status.has_drought}

\* The configuration of the cooldown-reactive plugin in the app, and the
\* messages it is shown: a success with a cooldown of one minute and a
\* throttling with one second to wait, both replies to the operator.
AppBiguanCfg ==
  [buffer |-> MaxBuffer, cjmin |-> 0, cjmax |-> 0, rjmin |-> 0, rjmax |-> MaxJitter]
AppMessages ==
  {[text |-> <<"dazuo", "1", "min">>, is_reply_to_me |-> TRUE],
   [text |-> <<"lingqi", "1", "sec">>, is_reply_to_me |-> TRUE]}

\* The callers of _send: the handler of event e for its i-th action, and the
\* _scheduled closure of task t.
FromEvent(e, i) == <<"event", e, i>>
FromTask(t) == <<"task", t, 0>>
Callers ==
  {FromEvent(e, i) : e \in AppEvents, i \in 1..MaxBatch} \cup {FromTask(t) : t \in TaskIds}

\* n calls of _send so far; of the last one: its outcome (limited, dry, io:
\* handed to the transport and awaiting it, ok, failed, cancelled), whether
\* it returned a message id, whether it raised, and when it was made.
NoAttempt == [n |-> 0, out |-> "none", mid |-> FALSE, raised |-> FALSE, at |-> 0]
NoAct == [plugin |-> "", text |-> "", ev |-> 0, idx |-> 0, at |-> 0]
NoHandler == [st |-> "none", acts |-> <<>>, pos |-> 0]

\* The state an operation of the app works on.
Cur ==
  [reg |-> reg, rq |-> rq, tasks |-> tasks, nreg |-> nreg, glob |-> glob, per |-> per,
   sent |-> sent, att |-> att, tact |-> tact, hlog |-> hlog, hd |-> hd]

Commit(S) ==
  /\ reg' = S.reg /\ rq' = S.rq /\ tasks' = S.tasks /\ nreg' = S.nreg
  /\ glob' = S.glob /\ per' = S.per /\ sent' = S.sent
  /\ att' = S.att /\ tact' = S.tact /\ hlog' = S.hlog /\ hd' = S.hd

(***************************************************************************)
(* _send, lines 129-137: up to its return or to the await of the transport. *)
(* [S, susp]: the state, and whether _send is suspended in the transport.   *)
(***************************************************************************)
SendStart(S, c, p, origin) ==
  LET r == SendAdmit(S.glob, S.per, p, now)
      S1 == [S EXCEPT !.glob = r.glob, !.per = r.per]
      a == [NoAttempt EXCEPT !.n = S.att[c].n + 1, !.at = now]
  IN  IF ~r.ok
      THEN [S |-> [S1 EXCEPT !.att[c] = [a EXCEPT !.out = "limited"]], susp |-> FALSE]
      ELSE IF dry
      THEN [S |-> [S1 EXCEPT !.att[c] = [a EXCEPT !.out = "dry"]], susp |-> FALSE]
      ELSE [S |-> [S1 EXCEPT !.att[c] = [a EXCEPT !.out = "io"],
                             !.sent = Append(@, [plugin |-> p, at |-> now, origin |-> origin])],
            susp |-> TRUE]

(***************************************************************************)
(* _send, lines 137-152: the transport call returns (ok, with or without a  *)
(* message id) or raises an Exception, which is caught and logged.  The     *)
(* result is the attempt as _send leaves it.                                *)
(***************************************************************************)
SendFailed_Raise(a) == [a EXCEPT !.out = "failed", !.mid = FALSE, !.raised = TRUE]

SendFailed(a) == [a EXCEPT !.out = "failed", !.mid = FALSE]

SendEnd(S, c, ok, mid) ==
  [S EXCEPT !.att[c] = IF ok THEN [@ EXCEPT !.out = "ok", !.mid = mid] ELSE SendFailed(@)]

\* The outcomes of a transport call: [ok, mid].
TransportOutcomes == {<<TRUE, TRUE>>, <<TRUE, FALSE>>, <<FALSE, FALSE>>}

(***************************************************************************)
(* _execute_action for the i-th action a of event e: [S, susp].            *)
(***************************************************************************)
ExecuteAction_AlwaysSend(S, e, i, a) ==
  SendStart([S EXCEPT !.hlog = Append(@, [idx |-> i, kind |-> "send", key |-> ""])],
            FromEvent(e, i), a.plugin, "event")

ExecuteAction(S, e, i, a) ==
  IF a.delay > 0
  THEN LET s == DoSchedule(S.reg, S.rq, S.tasks, S.nreg, KeyOf(a), a.delay, 0)
       IN  [S |-> [S EXCEPT !.reg = s.reg, !.rq = s.rq, !.tasks = s.tasks, !.nreg = s.nreg,
                            !.tact[s.nreg] = [plugin |-> a.plugin, text |-> a.text,
                                              ev |-> e, idx |-> i, at |-> now],
                            !.hlog = Append(@, [idx |-> i, kind |-> "schedule",
                                                   key |-> KeyOf(a)])],
            susp |-> FALSE]
  ELSE SendStart([S EXCEPT !.hlog = Append(@, [idx |-> i, kind |-> "send", key |-> ""])],
                 FromEvent(e, i), a.plugin, "event")

(***************************************************************************)
(* _on_event, lines 193-194: the loop over the actions from the i-th on,   *)
(* up to the next suspension in the transport or to the end of the list.   *)
(***************************************************************************)
RECURSIVE RunHandler(_, _, _)
RunHandler(S, e, i) ==
  IF i > Len(S.hd.acts)
  THEN [S EXCEPT !.hd.st = "done", !.hd.pos = i]
  ELSE LET r == ExecuteAction(S, e, i, S.hd.acts[i])
       IN  IF r.susp
           THEN [r.S EXCEPT !.hd.st = "io", !.hd.pos = i]
           ELSE RunHandler(r.S, e, i + 1)

\* The number of registrations among the actions from the i-th on.
RECURSIVE Delayed(_, _)
Delayed(acts, i) ==
  IF i > Len(acts) THEN 0
  ELSE (IF acts[i].delay > 0 THEN 1 ELSE 0) + Delayed(acts, i + 1)

AppInit ==
  /\ tasks = [k \in AppKeys |-> 0]
  /\ reg = [t \in TaskIds |-> NoTask]
  /\ nreg = 0
  /\ rq = <<>>
  /\ now = 0
  /\ escaped = {}
  /\ ca = [st |-> "idle", snap |-> {}, upto |-> 0]
  /\ gmax \in 1..MaxG
  /\ pmax = gmax
  /\ glob = <<>>
  /\ per = [p \in Plugins \cup {BiguanName, GardenName} |-> <<>>]
  /\ sent = <<>>
  /\ res = NoCall
  /\ dry \in BOOLEAN
  /\ hd = NoHandler
  /\ nev = 0
  /\ hlog = <<>>
  /\ tact = [t \in TaskIds |-> NoAct]
  /\ att = [c \in Callers |-> NoAttempt]

AppIdle ==
  /\ dry = FALSE
  /\ hd = NoHandler
  /\ nev = 0
  /\ hlog = <<>>
  /\ tact = [t \in TaskIds |-> NoAct]
  /\ att = [c \in Callers |-> NoAttempt]

\* dispatch returns the list L for a new event and _on_event runs its loop.
\* Events are handled one after the other.
Event(L) ==
  /\ nev < MaxAppEvents
  /\ hd.st \in {"none", "done"}
  /\ nreg + Delayed(L, 1) <= MaxReg
  /\ nev' = nev + 1
  /\ Commit(RunHandler([Cur EXCEPT !.hd = [st |-> "io", acts |-> L, pos |-> 0],
                                   !.hlog = <<>>],
                       nev + 1, 1))
  /\ UNCHANGED <<now, escaped, ca, gmax, pmax, res, dry>>
  /\ UNCHANGED <<ctorVars, dispVars, bigVars, garVars, xingVars, zongVars>>

\* An event whose message the cooldown-reactive plugin answers; jc and jr
\* are the draws of random.randint.
BiguanEvent(m, jc, jr) == Event(BiguanOnMessage(bcfg, m, jc, jr))

\* An event whose message is a status snapshot for the remediation plugin:
\* on_message runs, then _on_event runs its loop over the actions.
GardenEvent(m) ==
  LET r == GardenOnMessage(gcfg, gst, m)
  IN  /\ nev < MaxAppEvents
      /\ hd.st \in {"none", "done"}
      /\ nreg + Delayed(r.acts, 1) <= MaxReg
      /\ nev' = nev + 1
      /\ Commit(RunHandler([Cur EXCEPT !.hd = [st |-> "io", acts |-> r.acts, pos |-> 0],
                                       !.hlog = <<>>],
                           nev + 1, 1))
      /\ gst' = r.st
      /\ gmsg' = m
      /\ gout' = [n |-> 1, acts |-> r.acts, before |-> gst]
      /\ UNCHANGED <<now, escaped, ca, gmax, pmax, res, dry, gcfg>>
      /\ UNCHANGED <<ctorVars, dispVars, bigVars, xingVars, zongVars>>

\* The transport call of the handler completes: its wake-up is queued.
HandlerIoDone ==
  /\ hd.st = "io"
  /\ ~InQueue(rq, 0)
  /\ rq' = Append(rq, 0)
  /\ UNCHANGED <<tasks, reg, nreg, now, escaped, ca>>
  /\ UNCHANGED notSched

\* The handler resumes in _send with the transport's outcome and goes on
\* with its loop.
HandlerResume(o) ==
  /\ rq # <<>> /\ Head(rq) = 0
  /\ LET S == [Cur EXCEPT !.rq = Tail(rq)]
     IN  Commit(RunHandler(SendEnd(S, FromEvent(nev, hd.pos), o[1], o[2]), nev, hd.pos + 1))
  /\ UNCHANGED <<now, escaped, ca, gmax, pmax, res, dry, nev>>
  /\ UNCHANGED <<ctorVars, dispVars, bigVars, garVars, xingVars, zongVars>>

(***************************************************************************)
(* A task of _execute_action wakes from its sleep (Scheduler._run, line    *)
(* 36): its action is the closure _scheduled, which calls _send.           *)
(***************************************************************************)
AppTaskWake(t) ==
  /\ rq # <<>> /\ Head(rq) = t
  /\ reg[t].st = "sleep"
  /\ LET k == reg[t].key
         S == [Cur EXCEPT !.rq = Tail(rq)]
     IN  IF reg[t].cancel
         THEN Commit([S EXCEPT !.tasks = Cleanup(reg, tasks, k),
                               !.reg = Finish(reg, t, "cancelled")])
         ELSE LET R == [reg EXCEPT ![t].runs = @ + 1]
                  r == SendStart([S EXCEPT !.reg = R], FromTask(t), tact[t].plugin, "timer")
              IN  IF r.susp
                  THEN Commit([r.S EXCEPT !.reg[t].st = "act"])
                  ELSE Commit([r.S EXCEPT !.tasks = Cleanup(R, tasks, k),
                                          !.reg = Finish(R, t, "completed")])
  /\ UNCHANGED <<now, escaped, ca, gmax, pmax, res, dry, nev>>
  /\ UNCHANGED <<ctorVars, dispVars, bigVars, garVars, xingVars, zongVars>>

\* The task resumes in _send: with CancelledError when it was replaced
\* meanwhile, else with the transport's outcome.
AppTaskResume(t, o) ==
  /\ rq # <<>> /\ Head(rq) = t
  /\ reg[t].st = "act"
  /\ LET S == [Cur EXCEPT !.rq = Tail(rq), !.tasks = Cleanup(reg, tasks, reg[t].key)]
     IN  IF reg[t].cancel
         THEN /\ o = <<FALSE, FALSE>>
              /\ Commit([S EXCEPT !.reg = Finish(reg, t, "cancelled"),
                                  !.att[FromTask(t)].out = "cancelled"])
         ELSE Commit([SendEnd(S, FromTask(t), o[1], o[2])
                        EXCEPT !.reg = Finish(reg, t, "completed")])
  /\ UNCHANGED <<now, escaped, ca, gmax, pmax, res, dry, nev>>
  /\ UNCHANGED <<ctorVars, dispVars, bigVars, garVars, xingVars, zongVars>>

\* Time passes while the loop is idle (as Tick, up to the app's horizon).
AppTick ==
  /\ now < MaxAppTime
  /\ rq = <<>>
  /\ now' = now + 1
  /\ rq' = Ascending(DueAt(reg, now + 1))
  /\ UNCHANGED <<tasks, reg, nreg, escaped, ca>>
  /\ UNCHANGED notSched

AppNext ==
  \/ \E L \in Batches : Event(L)
  \/ \E m \in AppMessages, jc \in bcfg.cjmin..bcfg.cjmax, jr \in bcfg.rjmin..bcfg.rjmax :
       BiguanEvent(m, jc, jr)
  \/ HandlerIoDone
  \/ \E o \in TransportOutcomes : HandlerResume(o)
  \/ \E t \in TaskIds : TaskStart(t)
  \/ \E t \in TaskIds : AppTaskWake(t)
  \/ \E t \in TaskIds : IoDone(t)
  \/ \E t \in TaskIds, o \in TransportOutcomes : AppTaskResume(t, o)
  \/ AppTick

(***************************************************************************)
(*                         plugins/xinggong.py                             *)
(* Times are seconds since a midnight; None stands for Python's None.      *)
(***************************************************************************)
MaxXReg == 6
MaxXEvents == 2
MaxXTicks == 1
MaxXDur == 1

DaySeconds == 86400
GraceSeconds == 90
QizhenCooldownBuffer == 5
AssistCooldownBuffer == 5
MinRetrySeconds == 30
MinPollSeconds == 60
StartHM == 25200
SecondOffset == 43500

XingName == "xinggong"
QizhenKey == "xinggong.qizhen.loop"
WenanKey == "xinggong.wenan.loop"
XingKeys == {QizhenKey, WenanKey}
XTaskIds == 1..MaxXReg

\* __init__, lines 38-40: the start time of day from "HH:MM", the retry
\* interval max(30, configured), the second offset max(0, configured).
XConfigs ==
  {[hm |-> StartHM, retry |-> r, offset |-> o, spacing |-> 0, base |-> MinPollSeconds] :
     r \in {GraceSeconds + MinRetrySeconds}, o \in {0, SecondOffset}}

\* The moments run() may start at: one second before the start time of the
\* second day, and at it.
XStartTimes == {DaySeconds + StartHM - 1, DaySeconds + StartHM}

\* The state of the plugin after __init__, lines 45-56.
XFresh ==
  [cycle |-> None, first |-> None, second |-> None, pending |-> None,
   invite_id |-> None, invite_slot |-> None, blocked |-> None, last_sent |-> None,
   assist_blocked |-> None, sched |-> FALSE]

\* What on_message looks for in a text:
\*   cooldown  "再次启阵" with "请在"      invite   "周天星斗大阵-启"
\*   assistcd  "再次助阵" with "请在"      success  "周天星斗大阵-成", or
\*                                                  "大阵已成" with "周天星斗大阵"
\*   soothed   "成功安抚了" with "引星盘"  collected "成功从", "收集", "星辰精华"
XFeatures == {"cooldown", "invite", "assistcd", "success", "soothed", "collected"}
XDurations == {None, MaxXDur, DaySeconds}
MsgIds == {1, 2}

\* XinggongObservatoryStatus as the plugin reads it.
XStatuses ==
  [abnormal : BOOLEAN, collectable : BOOLEAN, idle : BOOLEAN,
   min_remaining : {None, MaxXDur}]

\* A message: its stripped text is blank, starts with "." or is other text;
\* what the text holds, whether it holds the operator's tag, the duration
\* _parse_duration_seconds finds in it, what parse_xinggong_observatory
\* makes of it; ctx.message_id and ctx.is_reply_to_me.
XMsg(lead, feats, mine, reply, id, dur, status) ==
  [lead |-> lead, feats |-> feats, mine |-> mine, reply |-> reply, id |-> id,
   dur |-> dur, status |-> status]

XMessages ==
  {XMsg("dot", {}, FALSE, FALSE, 1, None, NoStatus),
   XMsg("text", {"cooldown"}, FALSE, TRUE, 1, MaxXDur, NoStatus),
   XMsg("text", {"cooldown"}, FALSE, TRUE, 1, DaySeconds, NoStatus),
   XMsg("text", {"cooldown"}, FALSE, TRUE, 1, None, NoStatus),
   XMsg("text", {"cooldown"}, FALSE, FALSE, 1, MaxXDur, NoStatus),
   XMsg("text", {"invite"}, TRUE, FALSE, 1, None, NoStatus),
   XMsg("text", {"invite"}, TRUE, FALSE, 2, None, NoStatus),
   XMsg("text", {"invite"}, FALSE, FALSE, 1, None, NoStatus),
   XMsg("text", {"assistcd"}, FALSE, FALSE, 1, DaySeconds, NoStatus),
   XMsg("text", {"assistcd"}, FALSE, FALSE, 1, None, NoStatus),
   XMsg("text", {"success"}, FALSE, FALSE, 1, None, NoStatus),
   XMsg("text", {"success"}, FALSE, FALSE, 2, None, NoStatus),
   XMsg("text", {"success"}, TRUE, FALSE, 1, None, NoStatus),
   XMsg("text", {"invite", "success"}, TRUE, FALSE, 1, None, NoStatus),
   XMsg("text", {"invite", "assistcd"}, TRUE, FALSE, 1, MaxXDur, NoStatus),
   XMsg("text", {}, FALSE, FALSE, 1, None,
        [abnormal |-> FALSE, collectable |-> FALSE, idle |-> TRUE,
         min_remaining |-> MaxXDur])}

XAction(text, delay, key) ==
  [plugin |-> XingName, text |-> text, delay |-> delay, key |-> key]

\* _cycle_date_for: the day (counted from the first midnight) whose cycle
\* the moment t belongs to.
CycleDateFor_Calendar(c, t) == t \div DaySeconds

CycleDateFor(c, t) ==
  IF t % DaySeconds < c.hm THEN (t \div DaySeconds) - 1 ELSE t \div DaySeconds

\* _cycle_start_dt
CycleStartDt(c, t) == CycleDateFor(c, t) * DaySeconds + c.hm

\* _reset_if_new_cycle
ResetIfNewCycle_Never(c, x, t) == [x EXCEPT !.cycle = CycleDateFor(c, t)]

ResetIfNewCycle(c, x, t) ==
  IF x.cycle = CycleDateFor(c, t) THEN x
  ELSE [x EXCEPT !.cycle = CycleDateFor(c, t), !.first = None, !.second = None,
                 !.pending = None, !.invite_id = None, !.invite_slot = None,
                 !.assist_blocked = None]

\* Lines 163-165 and 177-179: the start, put off to the cooldown-block
\* deadline when that is later.
DesiredStart_Unblocked(x, start) == start

DesiredStart(x, start) ==
  IF x.blocked # None /\ x.blocked > start THEN x.blocked ELSE start

(***************************************************************************)
(* _qizhen_loop at time t, lines 158-191, up to its call of _send or of    *)
(* _schedule_qizhen_loop: the fields afterwards, whether the start command *)
(* is sent, and the delay the loop is registered with (after the send when *)
(* there is one).                                                          *)
(***************************************************************************)
QizhenLoop(c, x0, t) ==
  LET x == ResetIfNewCycle(c, x0, t)
      cycle_start == CycleStartDt(c, t)
  IN  IF x.first = None
      THEN LET desired == DesiredStart(x, cycle_start)
           IN  IF t < desired
               THEN [x |-> x, send |-> FALSE, slot |-> None, delay |-> desired - t]
               ELSE [x |-> [x EXCEPT !.pending = 1, !.last_sent = t],
                     send |-> TRUE, slot |-> 1, delay |-> c.retry]
      ELSE IF x.second = None
      THEN LET desired == DesiredStart(x, x.first + c.offset)
           IN  IF t < desired
               THEN [x |-> x, send |-> FALSE, slot |-> None, delay |-> desired - t]
               ELSE [x |-> [x EXCEPT !.pending = 2, !.last_sent = t],
                     send |-> TRUE, slot |-> 2, delay |-> c.retry]
      ELSE [x |-> x, send |-> FALSE, slot |-> None,
            delay |-> Max2(0, cycle_start + DaySeconds - t)]

\* Lines 209-213: whether a cooldown reply is taken as ours.
IsRelated_Always(x, m, t) == TRUE

IsRelated(x, m, t) ==
  m.reply \/ (x.last_sent # None /\ t - x.last_sent <= GraceSeconds)

\* Lines 217-219: the deadline after a cooldown reply with duration rem.
NewBlocked_Latest(x, rem, t) == t + rem + QizhenCooldownBuffer

NewBlocked(x, rem, t) ==
  LET b == t + rem + QizhenCooldownBuffer
  IN  IF x.blocked = None \/ b > x.blocked THEN b ELSE x.blocked

\* Line 254: whether a success is the operator's.
IsMine_Any(x, m) == TRUE

IsMine(x, m) == x.invite_id = m.id \/ m.mine

\* Lines 233-234: whether assisting is under a cooldown.
AssistBlocked_Never(x, t) == FALSE

AssistBlocked(x, t) == x.assist_blocked # None /\ t < x.assist_blocked

\* _next_poll_delay_seconds, lines 108-114.
XNextPollDelay(c, status) ==
  IF status.min_remaining = None THEN c.base
  ELSE Max2(1, Min2(c.base, status.min_remaining + MatureCheckBuffer))

\* Lines 266-342: the observatory part of on_message.
Observatory(c, m) ==
  IF "soothed" \in m.feats \/ "collected" \in m.feats
  THEN <<XAction("cmd_observatory", c.spacing, "xinggong.poll")>>
  ELSE IF m.status = NoStatus THEN <<>>
  ELSE LET poll == XAction("cmd_observatory", XNextPollDelay(c, m.status), "xinggong.poll")
       IN  IF m.status.abnormal
           THEN <<poll, XAction("cmd_soothe", 0, "xinggong.action.soothe")>>
           ELSE IF m.status.collectable
           THEN <<poll, XAction("cmd_collect", 0, "xinggong.action.collect")>>
           ELSE IF m.status.idle
           THEN <<poll, XAction("cmd_sow", 0, "xinggong.action.sow")>>
           ELSE <<poll>>

\* Lines 245-342, which an own invite falls through to.
AfterInvite_KeepPending(c, x, m, t) ==
  IF "assistcd" \in m.feats
  THEN [x |-> IF m.dur # None
              THEN [x EXCEPT !.assist_blocked = t + m.dur + AssistCooldownBuffer]
              ELSE x,
        acts |-> <<>>, resched |-> None]
  ELSE IF "success" \in m.feats
  THEN IF IsMine(x, m) /\ x.pending \in {1, 2}
       THEN [x |-> [x EXCEPT !.first = IF x.pending = 1 /\ x.first = None THEN t ELSE @,
                             !.second = IF x.pending = 2 /\ x.second = None THEN t ELSE @],
             acts |-> <<>>,
             resched |-> IF x.sched THEN 0 ELSE None]
       ELSE [x |-> x, acts |-> <<>>, resched |-> None]
  ELSE [x |-> x, acts |-> Observatory(c, m), resched |-> None]

AfterInvite(c, x, m, t) ==
  IF "assistcd" \in m.feats
  THEN [x |-> IF m.dur # None
              THEN [x EXCEPT !.assist_blocked = t + m.dur + AssistCooldownBuffer]
              ELSE x,
        acts |-> <<>>, resched |-> None]
  ELSE IF "success" \in m.feats
  THEN IF IsMine(x, m) /\ x.pending \in {1, 2}
       THEN [x |-> [x EXCEPT !.first = IF x.pending = 1 /\ x.first = None THEN t ELSE @,
                             !.second = IF x.pending = 2 /\ x.second = None THEN t ELSE @,
                             !.pending = None],
             acts |-> <<>>,
             resched |-> IF x.sched THEN 0 ELSE None]
       ELSE [x |-> x, acts |-> <<>>, resched |-> None]
  ELSE [x |-> x, acts |-> Observatory(c, m), resched |-> None]

(***************************************************************************)
(* on_message at time t: the fields afterwards, the actions returned (None *)
(* as the empty list) and the delay _schedule_qizhen_loop is called with   *)
(* (None when it is not called).                                           *)
(***************************************************************************)
XOnMessage(c, x0, m, t) ==
  IF m.lead # "text" THEN [x |-> x0, acts |-> <<>>, resched |-> None]
  ELSE
    LET x == ResetIfNewCycle(c, x0, t)
    IN  IF "cooldown" \in m.feats
        THEN IF ~IsRelated(x, m, t) \/ m.dur = None
             THEN [x |-> x, acts |-> <<>>, resched |-> None]
             ELSE LET b == NewBlocked(x, m.dur, t)
                  IN  [x |-> [x EXCEPT !.blocked = b, !.pending = None],
                       acts |-> <<>>,
                       resched |-> IF x.sched THEN Max2(0, b - t) ELSE None]
        ELSE IF "invite" \in m.feats
        THEN IF m.mine
             THEN AfterInvite(c, [x EXCEPT !.invite_id = m.id, !.invite_slot = x.pending],
                              m, t)
             ELSE IF AssistBlocked(x, t)
             THEN [x |-> x, acts |-> <<>>, resched |-> None]
             ELSE [x |-> x, acts |-> <<XAction("cmd_zhuzhen", 0, "xinggong.action.zhuzhen")>>,
                   resched |-> None]
        ELSE AfterInvite(c, x, m, t)

\* The callers of _send in the ritual's runs: run() at bootstrap and the
\* tasks of the loop.
BootCaller == <<"boot", 0, 0>>
XCallers == {FromTask(t) : t \in XTaskIds} \cup {BootCaller}

NoXOut == [acts |-> <<>>, resched |-> None, at |-> 0]
NoXFire == [n |-> 0, at |-> 0, sent |-> FALSE, slot |-> None]

XingInit ==
  /\ tasks = [k \in XingKeys |-> 0]
  /\ reg = [t \in XTaskIds |-> NoTask]
  /\ nreg = 0
  /\ rq = <<>>
  /\ now \in XStartTimes
  /\ escaped = {}
  /\ ca = [st |-> "idle", snap |-> {}, upto |-> 0]
  /\ gmax \in {1, MaxG}
  /\ pmax = gmax
  /\ glob = <<>>
  /\ per = [p \in {XingName} |-> <<>>]
  /\ sent = <<>>
  /\ res = NoCall
  /\ dry = FALSE
  /\ hd = NoHandler
  /\ nev = 0
  /\ hlog = <<>>
  /\ tact = [t \in XTaskIds |-> NoAct]
  /\ att = [c \in XCallers |-> NoAttempt]
  /\ xcfg \in XConfigs
  /\ xs = XFresh
  /\ xboot = "no"
  /\ xmsg = XMsg("blank", {}, FALSE, FALSE, 1, None, NoStatus)
  /\ xout = NoXOut
  /\ xfire = NoXFire
  /\ xn = [ev |-> 0, ticks |-> 0]

XingIdle ==
  /\ xcfg = [hm |-> 0, retry |-> MinRetrySeconds, offset |-> 0, spacing |-> 0,
             base |-> MinPollSeconds]
  /\ xs = XFresh
  /\ xboot = "no"
  /\ xmsg = XMsg("blank", {}, FALSE, FALSE, 1, None, NoStatus)
  /\ xout = NoXOut
  /\ xfire = NoXFire
  /\ xn = [ev |-> 0, ticks |-> 0]

xingKept ==
  <<escaped, ca, gmax, pmax, res, dry, nev, ctorVars, dispVars, bigVars, garVars, xcfg, zongVars>>

\* bootstrap, lines 137-142, called from run() (app.py, line 206): the
\* scheduler is kept and the loop is registered with delay 0.
Bootstrap(S) ==
  LET s == DoSchedule(S.reg, S.rq, S.tasks, S.nreg, QizhenKey, 0, 0)
  IN  [S EXCEPT !.reg = s.reg, !.rq = s.rq, !.tasks = s.tasks, !.nreg = s.nreg]

\* run(), app.py lines 203-206: the observatory command is sent, then the
\* plugin is bootstrapped.
XBootSend ==
  /\ xboot = "no"
  /\ LET r == SendStart(Cur, BootCaller, XingName, "boot")
     IN  IF r.susp
         THEN /\ Commit(r.S)
              /\ xboot' = "io"
              /\ xs' = xs
         ELSE /\ Commit(Bootstrap(r.S))
              /\ xboot' = "yes"
              /\ xs' = [xs EXCEPT !.sched = TRUE]
  /\ UNCHANGED <<now, xmsg, xout, xfire, xn>>
  /\ UNCHANGED xingKept

\* The transport call of run() completes: its wake-up is queued.
XBootIoDone ==
  /\ xboot = "io"
  /\ ~InQueue(rq, 0)
  /\ rq' = Append(rq, 0)
  /\ UNCHANGED <<tasks, reg, nreg, now, escaped, ca>>
  /\ UNCHANGED notSched

XBootResume(o) ==
  /\ rq # <<>> /\ Head(rq) = 0
  /\ xboot = "io"
  /\ Commit(Bootstrap(SendEnd([Cur EXCEPT !.rq = Tail(rq)], BootCaller, o[1], o[2])))
  /\ xboot' = "yes"
  /\ xs' = [xs EXCEPT !.sched = TRUE]
  /\ UNCHANGED <<now, xmsg, xout, xfire, xn>>
  /\ UNCHANGED xingKept

\* on_message is called on message m; when it calls _schedule_qizhen_loop
\* the caller is the event's handler, not a task of the scheduler.
XMessage(m) ==
  /\ xn.ev < MaxXEvents
  /\ LET r == XOnMessage(xcfg, xs, m, now)
     IN  /\ xs' = r.x
         /\ xout' = [acts |-> r.acts, resched |-> r.resched, at |-> now]
         /\ IF r.resched = None
            THEN UNCHANGED <<reg, rq, tasks, nreg>>
            ELSE /\ nreg < MaxXReg
                 /\ LET s == DoSchedule(reg, rq, tasks, nreg, QizhenKey, r.resched, 0)
                    IN  /\ reg' = s.reg /\ rq' = s.rq
                        /\ tasks' = s.tasks /\ nreg' = s.nreg
  /\ xmsg' = m
  /\ xn' = [xn EXCEPT !.ev = @ + 1]
  /\ UNCHANGED <<now, glob, per, sent, att, tact, hlog, hd, xboot, xfire>>
  /\ UNCHANGED xingKept

\* The end of a firing of task t: _schedule_qizhen_loop(d), called by the
\* running task, then _runner and _run return through the finally block.
LoopEnd_NoSchedule(S, t, d) ==
  [S EXCEPT !.tasks = Cleanup(S.reg, S.tasks, QizhenKey),
            !.reg = Finish(S.reg, t, "completed")]

LoopEnd(S, t, d) ==
  LET s == DoSchedule(S.reg, S.rq, S.tasks, S.nreg, QizhenKey, d, t)
  IN  [S EXCEPT !.rq = s.rq, !.nreg = s.nreg,
                !.tasks = Cleanup(s.reg, s.tasks, QizhenKey),
                !.reg = Finish(s.reg, t,
                               IF s.reg[t].cancel THEN "cancelled" ELSE "completed")]

(***************************************************************************)
(* A task under the loop's key wakes from its sleep: cancelled, it ends;   *)
(* otherwise _qizhen_loop runs up to the await of the transport or to its  *)
(* end.                                                                    *)
(***************************************************************************)
XLoopWake(t) ==
  /\ rq # <<>> /\ Head(rq) = t
  /\ reg[t].st = "sleep"
  /\ LET S == [Cur EXCEPT !.rq = Tail(rq)]
     IN  IF reg[t].cancel
         THEN /\ Commit([S EXCEPT !.tasks = Cleanup(reg, tasks, QizhenKey),
                                  !.reg = Finish(reg, t, "cancelled")])
              /\ UNCHANGED <<xs, xfire>>
         ELSE /\ nreg < MaxXReg
              /\ LET p == QizhenLoop(xcfg, xs, now)
                     R == [reg EXCEPT ![t].runs = @ + 1]
                     f == [n |-> xfire.n + 1, at |-> now, sent |-> p.send, slot |-> p.slot]
                 IN  /\ xs' = p.x
                     /\ IF ~p.send
                        THEN /\ Commit(LoopEnd([S EXCEPT !.reg = R], t, p.delay))
                             /\ xfire' = f
                        ELSE LET r == SendStart([S EXCEPT !.reg = R], FromTask(t),
                                                XingName, "timer")
                             IN  IF r.susp
                                 THEN /\ Commit([r.S EXCEPT !.reg[t].st = "act"])
                                      /\ xfire' = f
                                 ELSE /\ Commit(LoopEnd(r.S, t, p.delay))
                                      /\ xfire' = f
  /\ UNCHANGED <<now, xboot, xmsg, xout, xn>>
  /\ UNCHANGED xingKept

\* The loop resumes at line 171 or 185: with CancelledError when its task
\* was replaced meanwhile, else with the transport's outcome, and goes on
\* to register itself with the retry interval.
XLoopResume(t, o) ==
  /\ rq # <<>> /\ Head(rq) = t
  /\ reg[t].st = "act"
  /\ LET S == [Cur EXCEPT !.rq = Tail(rq)]
     IN  IF reg[t].cancel
         THEN /\ o = <<FALSE, FALSE>>
              /\ Commit([S EXCEPT !.tasks = Cleanup(reg, tasks, QizhenKey),
                                  !.reg = Finish(reg, t, "cancelled"),
                                  !.att[FromTask(t)].out = "cancelled"])
         ELSE /\ nreg < MaxXReg
              /\ Commit(LoopEnd(SendEnd(S, FromTask(t), o[1], o[2]), t, xcfg.retry))
  /\ UNCHANGED <<now, xs, xboot, xmsg, xout, xfire, xn>>
  /\ UNCHANGED xingKept

\* The clock steps the model takes when no timer is due before.
XSteps == {GraceSeconds + 1}

\* The earliest moment a sleeping task is due, or None.
NextDue ==
  LET D == {reg[t].due : t \in {u \in DOMAIN reg : reg[u].st = "sleep" /\ ~reg[u].cancel}}
  IN  IF D = {} THEN None ELSE CHOOSE d \in D : \A e \in D : d <= e

\* Time passes while the loop is idle: by a step, or up to the next timer,
\* whose task wakes.
XTick(n) ==
  /\ xn.ticks < MaxXTicks
  /\ rq = <<>>
  /\ n > now
  /\ NextDue # None => n <= NextDue
  /\ now' = n
  /\ rq' = Ascending(DueAt(reg, n))
  /\ xn' = [xn EXCEPT !.ticks = @ + 1]
  /\ UNCHANGED <<tasks, reg, nreg, escaped, ca>>
  /\ UNCHANGED <<rlVars, ctorVars, dispVars, appVars, bigVars, garVars, zongVars>>
  /\ UNCHANGED <<xcfg, xs, xboot, xmsg, xout, xfire>>

\* The outcomes of a transport call that the ritual tells apart: none; one
\* success and the failure are kept.
XOutcomes == {<<TRUE, TRUE>>, <<FALSE, FALSE>>}

XingNext ==
  \/ XBootSend
  \/ XBootIoDone
  \/ \E o \in XOutcomes : XBootResume(o)
  \/ \E m \in XMessages : XMessage(m)
  \/ \E t \in XTaskIds : TaskStart(t)
  \/ \E t \in XTaskIds : XLoopWake(t)
  \/ \E t \in XTaskIds : IoDone(t)
  \/ \E t \in XTaskIds, o \in XOutcomes : XLoopResume(t, o)
  \/ \E n \in {now + d : d \in XSteps} \cup ({NextDue} \ {None}) : XTick(n)

(***************************************************************************)
(* The fixed-time daily quota, plugins/zongmen.py: one daily action and    *)
(* three quota slots at configured times of day, each occurrence under    *)
(* its own key.  Time is in seconds; a date is the number of the day.      *)
(***************************************************************************)
MaxZReg == 8
MaxZEvents == 1
MaxZSpacing == 2
AmpleQuota == 7

DianmaoHM == 34620
MinuteSeconds == 60
QuotaLimit == 3

ZongName == "zongmen"
ZTaskIds == 1..MaxZReg
ZDays == 1..((MaxZReg \div 4) + 1)

\* The keys of _schedule_dianmao and _schedule_chuangong; strftime('%Y%m%d')
\* of a date is written as the day's number.
DianmaoKey(d) == "zongmen.dianmao." \o ToString(d)
ChuangongKey(slot, d) == "zongmen.chuangong." \o ToString(slot) \o "." \o ToString(d)
ZKey(kind, slot, d) == IF kind = "dianmao" THEN DianmaoKey(d) ELSE ChuangongKey(slot, d)
ZongKeys ==
  {DianmaoKey(d) : d \in ZDays} \cup {ChuangongKey(s, d) : s \in 1..3, d \in ZDays}

\* The configured times of day: a minute before the moment of bootstrap, at
\* it, and a minute after it.
ZStart == DaySeconds + DianmaoHM
ZTimes == {DianmaoHM - MinuteSeconds, DianmaoHM, DianmaoHM + MinuteSeconds}
AllPast ==
  <<DianmaoHM - MinuteSeconds, DianmaoHM - MinuteSeconds, DianmaoHM - MinuteSeconds>>
ZQuotaTimes ==
  {AllPast,
   <<DianmaoHM, DianmaoHM - MinuteSeconds, DianmaoHM + MinuteSeconds>>,
   <<DianmaoHM + MinuteSeconds, DianmaoHM, DianmaoHM - MinuteSeconds>>}

\* The configurations: the spacing is tried at 0 where every quota time has
\* passed and catch-up is on, and at its bound everywhere.
ZConfigs ==
  {c \in [dm : ZTimes, cg : ZQuotaTimes, catch : BOOLEAN, spacing : {0, MaxZSpacing}] :
     c.spacing = 0 => c.catch /\ c.cg = AllPast}

ZFresh == [date |-> None, done |-> FALSE, count |-> 0, disabled |-> FALSE]

\* The texts on_message tells apart: blank, the daily action acknowledged,
\* the hint that the quota command needs a reply, the limit reached, an
\* "N/total today" acknowledgement, and any other text.
ZMsg(kind, n, total) == [kind |-> kind, n |-> n, total |-> total]
ZMessages ==
  {ZMsg("blank", 0, 0), ZMsg("done", 0, 0), ZMsg("hint", 0, 0), ZMsg("limit", 0, 0),
   ZMsg("other", 0, 0)}
  \cup {ZMsg("count", n, QuotaLimit) : n \in {0, QuotaLimit - 1, QuotaLimit + 1}}
  \cup {ZMsg("count", 1, QuotaLimit + 1)}

\* _reset_if_new_day, lines 54-61.
ResetIfNewDay_Never(z, t) == z

ResetIfNewDay(z, t) ==
  IF z.date = t \div DaySeconds THEN z
  ELSE [date |-> t \div DaySeconds, done |-> FALSE, count |-> 0, disabled |-> FALSE]

\* _seconds_until, lines 93-105: [delay, date].
SecondsUntil_NoCatchUp(c, t, hm) ==
  LET today == (t \div DaySeconds) * DaySeconds + hm
  IN  IF t <= today THEN [delay |-> today - t, date |-> t \div DaySeconds]
      ELSE [delay |-> today + DaySeconds - t, date |-> (t \div DaySeconds) + 1]

SecondsUntil(c, t, hm) ==
  LET today == (t \div DaySeconds) * DaySeconds + hm
  IN  IF t <= today THEN [delay |-> today - t, date |-> t \div DaySeconds]
      ELSE IF c.catch THEN [delay |-> 0, date |-> t \div DaySeconds]
      ELSE [delay |-> today + DaySeconds - t, date |-> (t \div DaySeconds) + 1]

\* _next_occurrence, lines 107-111.
NextOccurrence(t, hm) ==
  LET dt == (t \div DaySeconds) * DaySeconds + hm
  IN  IF dt > t THEN dt ELSE dt + DaySeconds

\* on_message, lines 113-145: the fields afterwards.
ZOnMessage_AnyCount(z0, m, t) ==
  IF m.kind = "blank" THEN z0
  ELSE LET z == ResetIfNewDay(z0, t)
       IN  IF m.kind = "done" THEN [z EXCEPT !.done = TRUE]
           ELSE IF m.kind = "hint" THEN [z EXCEPT !.disabled = TRUE]
           ELSE IF m.kind = "limit" THEN [z EXCEPT !.count = QuotaLimit]
           ELSE IF m.kind = "count" /\ m.total = QuotaLimit
           THEN [z EXCEPT !.count = m.n]
           ELSE z

ZOnMessage(z0, m, t) ==
  IF m.kind = "blank" THEN z0
  ELSE LET z == ResetIfNewDay(z0, t)
       IN  IF m.kind = "done" THEN [z EXCEPT !.done = TRUE]
           ELSE IF m.kind = "hint" THEN [z EXCEPT !.disabled = TRUE]
           ELSE IF m.kind = "limit" THEN [z EXCEPT !.count = QuotaLimit]
           ELSE IF m.kind = "count" /\ m.total = QuotaLimit /\ m.n >= 0 /\ m.n <= QuotaLimit
           THEN [z EXCEPT !.count = m.n]
           ELSE z

\* The four activities in the order bootstrap takes them, lines 160-172.
ZActivities(c) ==
  <<[kind |-> "dianmao", slot |-> 0, hm |-> c.dm],
    [kind |-> "chuangong", slot |-> 1, hm |-> c.cg[1]],
    [kind |-> "chuangong", slot |-> 2, hm |-> c.cg[2]],
    [kind |-> "chuangong", slot |-> 3, hm |-> c.cg[3]]>>

\* bootstrap, lines 157-172: what is registered for the activities from the
\* i-th on, offset being the local of that name.
RECURSIVE ZPlan(_, _, _, _)
ZPlan(c, t, i, offset) ==
  IF i > 4 THEN <<>>
  ELSE LET a == ZActivities(c)[i]
           u == SecondsUntil(c, t, a.hm)
           caught == u.delay = 0 /\ c.catch
       IN  <<[kind |-> a.kind, slot |-> a.slot, hm |-> a.hm, date |-> u.date,
              delay |-> IF caught THEN offset ELSE u.delay]>>
           \o ZPlan(c, t, i + 1, IF caught THEN offset + c.spacing ELSE offset)

\* The _runner closure of a task and how far its firing got: the guard it
\* met, the calls of send it made, the position of its transport call and
\* the message id its context send returned.
NoZTask ==
  [kind |-> "none", slot |-> 0, hm |-> 0, date |-> 0, pc |-> "none", guard |-> "none",
   calls |-> <<>>, pos |-> 0, mid |-> None, at |-> 0]
ZRunner(kind, slot, hm, date) ==
  [NoZTask EXCEPT !.kind = kind, !.slot = slot, !.hm = hm, !.date = date, !.pc = "wait"]

\* _schedule_dianmao / _schedule_chuangong, lines 175-221, for the entries
\* of a plan from the i-th on, called from run().
RECURSIVE ZRegister(_, _, _)
ZRegister(S, plan, i) ==
  IF i > Len(plan) THEN S
  ELSE LET a == plan[i]
           s == DoSchedule(S.reg, S.rq, S.tasks, S.nreg, ZKey(a.kind, a.slot, a.date),
                           a.delay, 0)
       IN  ZRegister([S EXCEPT !.reg = s.reg, !.rq = s.rq, !.tasks = s.tasks,
                               !.nreg = s.nreg],
                     plan, i + 1)

ZCallers == {FromTask(t) : t \in ZTaskIds}

ZongInit ==
  /\ tasks = [k \in ZongKeys |-> 0]
  /\ reg = [t \in ZTaskIds |-> NoTask]
  /\ nreg = 0
  /\ rq = <<>>
  /\ now = ZStart
  /\ escaped = {}
  /\ ca = [st |-> "idle", snap |-> {}, upto |-> 0]
  /\ gmax \in {MaxG, AmpleQuota}
  /\ pmax = gmax
  /\ glob = <<>>
  /\ per = [p \in {ZongName} |-> <<>>]
  /\ sent = <<>>
  /\ res = NoCall
  /\ dry = FALSE
  /\ hd = NoHandler
  /\ nev = 0
  /\ hlog = <<>>
  /\ tact = [t \in ZTaskIds |-> NoAct]
  /\ att = [c \in ZCallers |-> NoAttempt]
  /\ zcfg \in ZConfigs
  /\ zs = ZFresh
  /\ zboot = [done |-> FALSE, at |-> 0]
  /\ ztask = [t \in ZTaskIds |-> NoZTask]
  /\ zmsg = ZMsg("blank", 0, 0)
  /\ zn = [ev |-> 0]

ZongIdle ==
  /\ zcfg = [dm |-> 0, cg |-> <<0, 0, 0>>, catch |-> FALSE, spacing |-> 0]
  /\ zs = ZFresh
  /\ zboot = [done |-> FALSE, at |-> 0]
  /\ ztask = <<>>
  /\ zmsg = ZMsg("blank", 0, 0)
  /\ zn = [ev |-> 0]

zongKept ==
  <<escaped, ca, gmax, pmax, res, dry, nev, ctorVars, dispVars, bigVars, garVars, xingVars, zcfg>>

\* run(), app.py lines 207-208: bootstrap of the enabled plugin.
ZBootstrap ==
  /\ ~zboot.done
  /\ LET plan == ZPlan(zcfg, now, 1, 0)
     IN  /\ Commit(ZRegister(Cur, plan, 1))
         /\ ztask' = [t \in ZTaskIds |->
                        IF t > nreg /\ t <= nreg + Len(plan)
                        THEN ZRunner(plan[t - nreg].kind, plan[t - nreg].slot,
                                     plan[t - nreg].hm, plan[t - nreg].date)
                        ELSE ztask[t]]
  /\ zs' = ResetIfNewDay(zs, now)
  /\ zboot' = [done |-> TRUE, at |-> now]
  /\ UNCHANGED <<now, zmsg, zn>>
  /\ UNCHANGED zongKept

\* on_message is called on message m, which arrives once the loop has run
\* what was ready; at most k messages are taken.
ZHandle(m, k) ==
  /\ zn.ev < k
  /\ rq = <<>>
  /\ zs' = ZOnMessage(zs, m, now)
  /\ zmsg' = m
  /\ zn' = [zn EXCEPT !.ev = @ + 1]
  /\ UNCHANGED <<schedVars, rlVars, now, appVars, zboot, ztask>>
  /\ UNCHANGED <<ctorVars, dispVars, bigVars, garVars, xingVars, zcfg>>

ZMessage(m) == ZHandle(m, MaxZEvents)

\* The guard a firing meets, lines 224-228 and 233-238.
ZGuard_Open(z, kind) == "open"

ZGuard(z, kind) ==
  IF kind = "dianmao" THEN IF z.done THEN "done" ELSE "open"
  ELSE IF z.disabled THEN "disabled"
  ELSE IF z.count >= QuotaLimit THEN "limit"
  ELSE "open"

\* The reply target the quota command is sent with, line 245.
CommandReply_None(mid) == None

CommandReply(mid) == mid

\* A call of send by task t with the given text and reply target: [S, zt,
\* susp].
ZSend(S, zt, t, text, reply, pc) ==
  LET r == SendStart(S, FromTask(t), ZongName, "timer")
  IN  [S |-> r.S,
       zt |-> [zt EXCEPT !.calls = Append(@, [text |-> text, reply |-> reply]),
                         !.pc = IF r.susp THEN pc ELSE "return",
                         !.pos = IF r.susp THEN Len(r.S.sent) ELSE @],
       susp |-> r.susp]

\* _maybe_send_dianmao / _maybe_send_chuangong with the fields z, up to the
\* first await of the transport or to the return.
MaybeSend(S, zt, z, t) ==
  LET g == ZGuard(z, zt.kind)
  IN  IF g # "open"
      THEN [S |-> S, zt |-> [zt EXCEPT !.guard = g, !.pc = "return"], susp |-> FALSE]
      ELSE IF zt.kind = "dianmao"
      THEN ZSend(S, [zt EXCEPT !.guard = g], t, "cmd_dianmao", None, "dm")
      ELSE ZSend(S, [zt EXCEPT !.guard = g], t, "xinde", None, "ctx")

\* _maybe_send_chuangong from line 240 on, the context send having returned
\* mid.
AfterContext_Always(S, zt, t, mid) ==
  ZSend(S, [zt EXCEPT !.mid = mid], t, "cmd_chuangong", CommandReply(mid), "cmd")

AfterContext(S, zt, t, mid) ==
  IF mid = None
  THEN [S |-> S, zt |-> [zt EXCEPT !.mid = None, !.pc = "return"], susp |-> FALSE]
  ELSE ZSend(S, [zt EXCEPT !.mid = mid], t, "cmd_chuangong", CommandReply(mid), "cmd")

\* What _send returned to task t: the id of the message when the transport
\* gave one, None otherwise.
Returned(S, zt, t) ==
  IF S.att[FromTask(t)].out = "ok" /\ S.att[FromTask(t)].mid THEN zt.pos ELSE None

\* The rest of _runner, lines 184-191 and 209-217: the next occurrence is
\* registered by the running task, then _runner and _run return through
\* the finally block.
ZEnd_NoSchedule(S, zt, t) ==
  [S EXCEPT !.tasks = Cleanup(S.reg, S.tasks, S.reg[t].key),
            !.reg = Finish(S.reg, t, "completed")]

ZEnd(S, zt, t) ==
  LET next == NextOccurrence(now, zt.hm)
      s == DoSchedule(S.reg, S.rq, S.tasks, S.nreg,
                      ZKey(zt.kind, zt.slot, next \div DaySeconds), Max2(0, next - now), t)
  IN  [S EXCEPT !.rq = s.rq, !.nreg = s.nreg,
                !.tasks = Cleanup(s.reg, s.tasks, s.reg[t].key),
                !.reg = Finish(s.reg, t,
                               IF s.reg[t].cancel THEN "cancelled" ELSE "completed")]

\* The closures after the firing of task t ended in state S: that of t, and
\* that of the task registered for the next occurrence, if any.
ZClosures(S, zt, t) ==
  [u \in ZTaskIds |->
     IF u = t THEN [zt EXCEPT !.pc = "done", !.at = now]
     ELSE IF u > nreg /\ u <= S.nreg
     THEN ZRunner(zt.kind, zt.slot, zt.hm, NextOccurrence(now, zt.hm) \div DaySeconds)
     ELSE ztask[u]]

\* A step of the firing of task t that left it in r = [S, zt, susp].
ZStep(r, t) ==
  IF r.susp
  THEN /\ Commit([r.S EXCEPT !.reg[t].st = "act"])
       /\ ztask' = [ztask EXCEPT ![t] = r.zt]
  ELSE LET S == ZEnd(r.S, r.zt, t)
       IN  /\ Commit(S)
           /\ ztask' = ZClosures(S, r.zt, t)

(***************************************************************************)
(* A task of the plugin wakes from its sleep: cancelled, it ends;          *)
(* otherwise _runner runs up to the await of the transport or to its end.  *)
(***************************************************************************)
ZWake(t) ==
  /\ rq # <<>> /\ Head(rq) = t
  /\ reg[t].st = "sleep"
  /\ LET S == [Cur EXCEPT !.rq = Tail(rq)]
     IN  IF reg[t].cancel
         THEN /\ Commit([S EXCEPT !.tasks = Cleanup(reg, tasks, reg[t].key),
                                  !.reg = Finish(reg, t, "cancelled")])
              /\ UNCHANGED <<zs, ztask>>
         ELSE /\ nreg < MaxZReg
              /\ zs' = ResetIfNewDay(zs, now)
              /\ ZStep(MaybeSend([S EXCEPT !.reg[t].runs = @ + 1], ztask[t],
                                 ResetIfNewDay(zs, now), t), t)
  /\ UNCHANGED <<now, zboot, zmsg, zn>>
  /\ UNCHANGED zongKept

\* The transport call of task t completes once the loop has run what was
\* ready, and the task resumes at line 229, 240 or 245 with its outcome; a
\* task cancelled meanwhile resumes with CancelledError instead.
ZResume(t, o) ==
  /\ reg[t].st = "act"
  /\ IF reg[t].cancel THEN rq # <<>> /\ Head(rq) = t ELSE rq = <<>>
  /\ LET S == IF reg[t].cancel THEN [Cur EXCEPT !.rq = Tail(rq)] ELSE Cur
     IN  IF reg[t].cancel
         THEN /\ o = <<FALSE, FALSE>>
              /\ Commit([S EXCEPT !.tasks = Cleanup(reg, tasks, reg[t].key),
                                  !.reg = Finish(reg, t, "cancelled"),
                                  !.att[FromTask(t)].out = "cancelled"])
              /\ UNCHANGED ztask
         ELSE /\ nreg < MaxZReg
              /\ LET S1 == SendEnd(S, FromTask(t), o[1], o[2])
                 IN  IF ztask[t].pc = "ctx"
                     THEN ZStep(AfterContext(S1, ztask[t], t, Returned(S1, ztask[t], t)), t)
                     ELSE ZStep([S |-> S1, zt |-> [ztask[t] EXCEPT !.pc = "return"],
                                 susp |-> FALSE], t)
  /\ UNCHANGED <<now, zs, zboot, zmsg, zn>>
  /\ UNCHANGED zongKept

\* The moments the clock of the model moves to: the next timer, or the next
\* midnight when that comes first.
NextMidnight == ((now \div DaySeconds) + 1) * DaySeconds

\* Time passes while nothing is ready to run and firings are still to come:
\* up to the next timer, whose task wakes, or to midnight.
ZTick(n) ==
  /\ zboot.done
  /\ nreg < MaxZReg
  /\ rq = <<>>
  /\ \A t \in ZTaskIds : reg[t].st # "act"
  /\ n > now
  /\ NextDue # None => n <= NextDue
  /\ now' = n
  /\ rq' = Ascending(DueAt(reg, n))
  /\ UNCHANGED <<tasks, reg, nreg, escaped, ca>>
  /\ UNCHANGED <<rlVars, ctorVars, dispVars, appVars, bigVars, garVars, xingVars>>
  /\ UNCHANGED <<zcfg, zs, zboot, ztask, zmsg, zn>>

\* The outcomes of a transport call that the plugin tells apart: a message
\* id, or none.
ZOutcomes == {<<TRUE, TRUE>>, <<FALSE, FALSE>>}

\* The plugin over two days: catch-up is off, the daily time and the time of
\* slot 2 have passed and come again tomorrow, slot 1 is due now and slot 3
\* in a minute; more messages are taken.
MaxZDayEvents == 2

ZDayConfigs ==
  {c \in ZConfigs :
     /\ ~c.catch
     /\ c.dm = DianmaoHM - MinuteSeconds
     /\ c.cg = <<DianmaoHM, DianmaoHM - MinuteSeconds, DianmaoHM + MinuteSeconds>>}

ZDayMessage(m) == ZHandle(m, MaxZDayEvents)

ZongDayNext ==
  \/ ZBootstrap
  \/ \E m \in ZMessages : ZDayMessage(m)
  \/ \E t \in ZTaskIds : TaskStart(t)
  \/ \E t \in ZTaskIds : ZWake(t)
  \/ \E t \in ZTaskIds, o \in ZOutcomes : ZResume(t, o)
  \/ \E n \in {NextMidnight} \cup ({NextDue} \ {None}) : ZTick(n)

ZongNext ==
  \/ ZBootstrap
  \/ \E m \in ZMessages : ZMessage(m)
  \/ \E t \in ZTaskIds : TaskStart(t)
  \/ \E t \in ZTaskIds : ZWake(t)
  \/ \E t \in ZTaskIds, o \in ZOutcomes : ZResume(t, o)
  \/ \E n \in {NextMidnight} \cup ({NextDue} \ {None}) : ZTick(n)

\* The app with the remediation plugin alone.
GarAppNext ==
  \/ \E m \in AppGardenMessages : GardenEvent(m)
  \/ HandlerIoDone
  \/ \E o \in TransportOutcomes : HandlerResume(o)
  \/ \E t \in TaskIds : TaskStart(t)
  \/ \E t \in TaskIds : AppTaskWake(t)
  \/ \E t \in TaskIds : IoDone(t)
  \/ \E t \in TaskIds, o \in TransportOutcomes : AppTaskResume(t, o)
  \/ AppTick

\* The app with the remediation plugin alone, shown texts without a status
\* snapshot as well: the harvest-completion reply and a text of neither
\* kind.
PollMessages ==
  AppGardenMessages
    \cup {m \in GMessages :
            m.lead = "text" /\ m.status = NoStatus /\ m.replies \in {{}, {"harvested"}}}

GarPollNext ==
  \/ \E m \in PollMessages : GardenEvent(m)
  \/ HandlerIoDone
  \/ \E o \in TransportOutcomes : HandlerResume(o)
  \/ \E t \in TaskIds : TaskStart(t)
  \/ \E t \in TaskIds : AppTaskWake(t)
  \/ \E t \in TaskIds : IoDone(t)
  \/ \E t \in TaskIds, o \in TransportOutcomes : AppTaskResume(t, o)
  \/ AppTick

(***************************************************************************)
(* Specifications.  Each exercises one component; the state of the others  *)
(* stays as constructed.                                                   *)
(***************************************************************************)
SchedIdle ==
  /\ tasks = [k \in Keys |-> 0]
  /\ reg = [t \in TaskIds |-> NoTask]
  /\ nreg = 0
  /\ rq = <<>>
  /\ escaped = {}
  /\ ca = [st |-> "idle", snap |-> {}, upto |-> 0]

RLIdle ==
  /\ gmax = 1 /\ pmax = 1
  /\ glob = <<>>
  /\ per = [p \in Plugins |-> <<>>]
  /\ sent = <<>>
  /\ res = NoCall

DispIdle ==
  /\ dprio = [p \in DIds |-> 0]
  /\ den = [p \in DIds |-> TRUE]
  /\ dorder = SortedPlugins(Len(DPlugins), dprio)
  /\ dpos = 0
  /\ dacts = <<>>
  /\ dprod = [p \in DIds |-> NotCalled]
  /\ dfailed = {}
  /\ dret = [done |-> FALSE, raised |-> FALSE, acts |-> <<>>]
  /\ dn = 0

InitSched == SchedInit /\ RLIdle /\ DispIdle /\ AppIdle /\ BigIdle /\ GarIdle /\ XingIdle /\ ZongIdle /\ CtorIdle

SpecSched == InitSched /\ [][SchedNext]_vars

InitRL == RLInit /\ SchedIdle /\ DispIdle /\ AppIdle /\ BigIdle /\ GarIdle /\ now = 0 /\ XingIdle /\ ZongIdle /\ CtorIdle

SpecRL == InitRL /\ [][RLNext]_vars

InitCtor ==
  /\ CtorInit /\ SchedIdle /\ DispIdle /\ AppIdle /\ BigIdle /\ GarIdle /\ now = 0
  /\ XingIdle /\ ZongIdle

SpecCtor == InitCtor /\ [][CtorNext]_vars

InitDisp == DispInit /\ SchedIdle /\ RLIdle /\ AppIdle /\ BigIdle /\ GarIdle /\ now = 0 /\ XingIdle /\ ZongIdle /\ CtorIdle

SpecDisp == InitDisp /\ [][DispNext]_vars

InitApp ==
  /\ AppInit
  /\ DispIdle
  /\ bcfg = AppBiguanCfg
  /\ bmsg = [text |-> <<>>, is_reply_to_me |-> FALSE]
  /\ bout = [called |-> FALSE, acts |-> <<>>]
  /\ GarIdle
  /\ XingIdle
  /\ ZongIdle /\ CtorIdle

SpecApp == InitApp /\ [][AppNext]_vars

InitBig == BigInit /\ SchedIdle /\ RLIdle /\ DispIdle /\ AppIdle /\ GarIdle /\ now = 0 /\ XingIdle /\ ZongIdle /\ CtorIdle

SpecBig == InitBig /\ [][BigNext]_vars

InitGar == GarInit /\ SchedIdle /\ RLIdle /\ DispIdle /\ AppIdle /\ BigIdle /\ now = 0 /\ XingIdle /\ ZongIdle /\ CtorIdle

SpecGar == InitGar /\ [][GarNext]_vars

InitGarApp == AppInit /\ DispIdle /\ BigIdle /\ GarInit /\ XingIdle /\ ZongIdle /\ CtorIdle

SpecGarApp == InitGarApp /\ [][GarAppNext]_vars

InitGarPoll == InitGarApp

SpecGarPoll == InitGarPoll /\ [][GarPollNext]_vars

InitXing == XingInit /\ DispIdle /\ BigIdle /\ GarIdle /\ ZongIdle /\ CtorIdle

SpecXing == InitXing /\ [][XingNext]_vars

InitZong == ZongInit /\ CtorIdle /\ DispIdle /\ BigIdle /\ GarIdle /\ XingIdle

SpecZong == InitZong /\ [][ZongNext]_vars

InitZongDay == InitZong /\ zcfg \in ZDayConfigs /\ gmax = MaxG

SpecZongDay == InitZongDay /\ [][ZongDayNext]_vars

(***************************************************************************)
(*                              Properties                                 *)
(***************************************************************************)

\* A task that can still start or continue its action: its coroutine has not
\* ended and no cancellation is on its way.
Live(t) == reg[t].st \in {"new", "sleep", "act"} /\ ~reg[t].cancel

\* The task's action is started by this step.
Fired(t) == reg'[t].runs > reg[t].runs

\* C1: single flight.  In every state between two steps of the loop, a live
\* task of a key is the task the map holds for that key, so each key has at
\* most one live task; schedule() cancels the task it finds and puts the new
\* one in its place within one step.
C1_SingleFlight ==
  \A k \in Keys : \A t \in TaskIds :
    (reg[t].key = k /\ Live(t)) => tasks[k] = t

\* A replaced task that has not yet seen its cancellation, beside its live
\* successor.
C1_Witness ==
  \E t1, t2 \in TaskIds :
    /\ t1 < t2
    /\ reg[t1].key = reg[t2].key
    /\ reg[t1].st \in {"sleep", "act"} /\ reg[t1].cancel
    /\ Live(t2) /\ tasks[reg[t2].key] = t2
    /\ ca.st = "idle"

\* What C2 asks of every step.
C2_Step ==
  /\ \A t \in TaskIds :
       Fired(t) =>
         /\ tasks[reg[t].key] = t
         /\ \A u \in TaskIds : (reg[u].st # "none" /\ reg[u].key = reg[t].key) => u <= t
         /\ now = reg[t].due
         /\ reg'[t].runs = 1
  /\ \A t \in TaskIds :
       (reg[t].st = "new" /\ reg'[t].st = "sleep") => reg'[t].due = now + reg[t].delay
  /\ now' # now =>
       \A k \in Keys :
         (tasks[k] # 0 /\ Live(tasks[k]) /\ reg[tasks[k]].st # "act")
           => (reg[tasks[k]].st = "sleep" /\ reg[tasks[k]].due > now)

\* C2: override, not merge.  An action is started only by the task that is
\* the last registration of its key and still the one in the map, exactly
\* when that registration's own delay has elapsed, and once; the clock never
\* passes the due time of the registered task before it has fired.
C2_OverrideNotMerge == [][C2_Step]_vars

\* The second registration of a key has fired, before the longer delay of
\* the first had elapsed, and the first never ran.
C2_Witness ==
  \E t1, t2 \in TaskIds :
    /\ t1 < t2
    /\ reg[t1].key = reg[t2].key
    /\ reg[t1].st = "done" /\ reg[t1].out = "cancelled" /\ reg[t1].runs = 0
    /\ reg[t2].runs = 1
    /\ reg[t2].delay < reg[t1].delay
    /\ now < reg[t1].delay
    /\ ca.st = "idle"

\* C9: faults of scheduled actions are contained.  No exception leaves _run;
\* a failed task has ended and its action was started once and is not run
\* again; and after a failure the registered tasks are still served on time.
C9_TaskFaultsContained ==
  /\ escaped = {}
  /\ \A t \in TaskIds : reg[t].runs <= 1
  /\ \A t \in TaskIds : reg[t].out = "failed" => (reg[t].st = "done" /\ reg[t].runs = 1)
  /\ (\E f \in TaskIds : reg[f].out = "failed") =>
       \A k \in Keys :
         (tasks[k] # 0 /\ Live(tasks[k]) /\ reg[tasks[k]].st = "sleep")
           => reg[tasks[k]].due >= now

\* An action failed; a task of another key and a later task of the same key
\* have run.
C9_Witness ==
  \E f, g, h \in TaskIds :
    /\ reg[f].out = "failed"
    /\ reg[g].st # "none" /\ reg[g].key # reg[f].key /\ reg[g].runs = 1
    /\ h > f /\ reg[h].key = reg[f].key /\ reg[h].runs = 1 /\ reg[h].out = "completed"

\* C10: self-removal.  Once a task has ended, the map does not hold it.
C10_SelfRemoval ==
  \A t \in TaskIds : reg[t].st = "done" => tasks[reg[t].key] # t

\* The number of events of a window that are younger than the window at t.
Count(ev, t) == Cardinality({i \in 1..Len(ev) : ev[i] > t - WindowSeconds})

\* What C3 asks of every step.
C3_Step ==
  \A p \in Plugins :
    (res'.op = "allow" /\ res'.p = p /\ now' = now) =>
      IF res'.ok
      THEN /\ Count(glob', now) = Count(glob, now) + 1
           /\ Count(per'[p], now) = Count(per[p], now) + 1
           /\ \A q \in Plugins \ {p} : per'[q] = per[q]
      ELSE /\ Count(glob', now) = Count(glob, now)
           /\ \A q \in Plugins : Count(per'[q], now) = Count(per[q], now)

\* C3: allow is atomic across both windows.  A call that returns false leaves
\* the number of admissions recorded in the global window and in every
\* plugin's window as it was; a call that returns true adds one to the global
\* window and one to the caller's window and nothing else.
C3_AllowAtomic == [][C3_Step]_vars

\* A call was denied by the plugin's full window while the global window had
\* room, and the global window still has room.
C3_Witness ==
  /\ res.op = "allow" /\ ~res.ok /\ res.at = now
  /\ Count(per[res.p], now) = pmax
  /\ Count(glob, now) < gmax
  /\ \E q \in Plugins : Count(per[q], now) = 0

\* What C4 asks of every step.
C4_Step ==
  /\ Count(glob, now) >= gmax => \A p \in Plugins : ~RLAllow(glob, per, p, now).ok
  /\ \A p \in Plugins :
       (res'.op \in {"allow", "send"} /\ res'.p = p /\ now' = now /\ Count(glob, now) >= gmax)
         => ~res'.ok

\* C4: the global cap.  While gmax admissions lie within the trailing window,
\* allow answers false for every plugin, whatever room the plugin's own
\* window has; so does every call made in such a state.
C4_GlobalCap == [][C4_Step]_vars

\* A plugin whose own window is empty was denied because the global window
\* is full.
C4_Witness ==
  /\ res.op = "allow" /\ ~res.ok /\ res.at = now
  /\ Count(glob, now) = gmax
  /\ Count(per[res.p], now) = 0

\* The messages of the plugins S handed to the transport in the window that
\* ends at t.
SentIn(t, S) ==
  Cardinality({i \in 1..Len(sent) :
                 sent[i].plugin \in S /\ sent[i].at > t - WindowSeconds /\ sent[i].at <= t})

\* C5: the send bound.  Whatever the interleaving of sends from event
\* handling and from timers, every trailing window holds at most gmax
\* transmitted messages, at most pmax of any one plugin, and no window of the
\* limiter holds more unexpired events than its bound.
C5_SendBound ==
  /\ \A t \in 0..now :
       /\ SentIn(t, Plugins) <= gmax
       /\ \A p \in Plugins : SentIn(t, {p}) <= pmax
  /\ Count(glob, now) <= gmax
  /\ \A p \in Plugins : Count(per[p], now) <= pmax

\* The window is full of messages sent from both origins, and a further send
\* was refused.
C5_Witness ==
  /\ gmax = MaxG
  /\ SentIn(now, Plugins) = gmax
  /\ \E i, j \in 1..Len(sent) : sent[i].origin = "event" /\ sent[j].origin = "timer"
  /\ res.op = "send" /\ ~res.ok /\ res.at = now

\* C6: next_allowed_in is the exact wait.  In every state and for every
\* plugin the wait w is not negative, is 0 when both windows have room, allow
\* succeeds at now + w and fails at every earlier time from now on; the same
\* holds of a single window; and after a call of next_allowed_in, as long as
\* nothing is admitted, allow succeeds exactly from the announced time on.
C6_NextAllowedExact ==
  /\ \A p \in Plugins :
       LET w == RLNextAllowedIn(glob, per, p, now)
       IN  /\ w >= 0
           /\ RLAllow(glob, per, p, now + w).ok
           /\ \A t \in now..(now + w - 1) : ~RLAllow(glob, per, p, t).ok
           /\ (Count(glob, now) < gmax /\ Count(per[p], now) < pmax) => w = 0
  /\ LET w == NextAllowedInAt(glob, gmax, now)
     IN  /\ w >= 0
         /\ SWAllow(glob, gmax, now + w).ok
         /\ \A t \in now..(now + w - 1) : ~SWAllow(glob, gmax, t).ok
  /\ res.op = "next" =>
       (RLAllow(glob, per, res.p, now).ok <=> now >= res.at + res.val)

\* A positive wait was announced and exactly that time has passed.
C6_Witness ==
  /\ res.op = "next" /\ res.val > 0
  /\ now = res.at + res.val
  /\ Len(glob) >= 2

\* C7: fault isolation.  dispatch never raises; when it returns, every
\* enabled plugin has been called for the event, whether or not another one
\* raised, and the result holds exactly the actions of the plugins that did
\* not raise.
C7_FaultIsolation ==
  /\ ~dret.raised
  /\ dret.done =>
       /\ \A p \in DIds : den[p] => dprod[p] # NotCalled
       /\ \A p \in DIds : \A j \in 1..MaxActs :
            (\E i \in 1..Len(dret.acts) : dret.acts[i] = [plugin |-> p, n |-> j])
              <=> (dprod[p] >= j)

\* In the second event a plugin raised, a plugin behind it produced an
\* action, and a plugin that raised in the first event produced one too.
C7_Witness ==
  /\ dret.done /\ dn = 2
  /\ \E i, j \in 1..Len(dorder) :
       i < j /\ dprod[dorder[i]] = Raised /\ dprod[dorder[j]] >= 1
  /\ \E p \in dfailed : dprod[p] >= 1

\* C8: priority order.  The result of dispatch lists the actions of the
\* enabled plugins by descending priority, plugins of equal priority in the
\* order of registration, each plugin's actions in the order it returned
\* them, each once; a disabled plugin is not called and contributes nothing.
C8_PriorityOrder ==
  (dret.done /\ ~dret.raised) =>
    /\ \A i, j \in 1..Len(dret.acts) :
         i < j =>
           LET a == dret.acts[i]
               b == dret.acts[j]
           IN  \/ dprio[a.plugin] > dprio[b.plugin]
               \/ dprio[a.plugin] = dprio[b.plugin] /\ a.plugin < b.plugin
               \/ a.plugin = b.plugin /\ a.n < b.n
    /\ \A i \in 1..Len(dret.acts) :
         den[dret.acts[i].plugin] /\ dret.acts[i].n <= dprod[dret.acts[i].plugin]
    /\ \A p \in DIds : \A j \in 1..MaxActs :
         (den[p] /\ dprod[p] >= j) =>
           \E i \in 1..Len(dret.acts) : dret.acts[i] = [plugin |-> p, n |-> j]
    /\ \A p \in DIds : ~den[p] => dprod[p] = NotCalled

\* Two plugins of equal priority and a later-registered plugin of higher
\* priority all produced actions, and a disabled plugin was passed over.
C8_Witness ==
  /\ dret.done
  /\ \E p, q, r, x \in DIds :
       /\ p < q /\ q < r
       /\ dprio[p] = dprio[q] /\ dprio[r] > dprio[q]
       /\ dprod[p] >= 1 /\ dprod[q] >= 1 /\ dprod[r] >= 1
       /\ ~den[x]

\* What C11 asks of every step.
C11_Step ==
  \A t \in TaskIds :
    \* no step asks a task suspended inside its action to cancel
    /\ (reg[t].st = "act" /\ ~reg[t].cancel /\ ca'.st = "idle") => ~reg'[t].cancel
    \* a task that was suspended inside its action ends by the action's return
    /\ (reg[t].st = "act" /\ reg'[t].st = "done" /\ ca.st = "idle")
         => reg'[t].out = "completed"
    \* a task that is no longer the one in the map does not fire
    /\ (reg[t].st # "none" /\ tasks[reg[t].key] # t) => ~Fired(t)

\* C11: replacing a task whose action has started.  When schedule() finds, for
\* its key, a task suspended at an await inside its action, that execution is
\* not interrupted: no cancellation is delivered to it and it ends by the
\* action's return; and the replaced task does not fire again.  (cancel_all is
\* left aside: it is meant to cancel running actions.)
C11_InFlightNotInterrupted == [][C11_Step]_vars

\* cancel_all returns by this step.
CancelAllReturns == ca.st # "returned" /\ ca'.st = "returned"

\* What C12 asks of every step, as the claim states it.
C12_Step ==
  /\ CancelAllReturns =>
       /\ \A k \in Keys : tasks'[k] = 0
       /\ \A t \in ca.snap : reg'[t].st = "done"
  /\ ca.st # "idle" => \A t \in 1..ca.upto : ~Fired(t)

\* C12 as claimed: cancel_all drains the scheduler.  When it returns the map
\* is empty and every task it found in the map, hence every task that was
\* live when it was called, has ended; and from the call on no task that
\* existed at the call starts its action.
C12_Drained == [][C12_Step]_vars

\* What the amended C12 asks of every step.
C12_AmendedStep ==
  /\ CancelAllReturns =>
       /\ \A k \in Keys : tasks'[k] = 0 \/ tasks'[k] > ca'.upto
       /\ \A t \in ca.snap : reg'[t].st = "done"
  /\ ca.st # "idle" => \A t \in 1..ca.upto : ~Fired(t)

\* C12, amended: when cancel_all returns, the map holds no task that was
\* registered before the call (only tasks registered while cancel_all was
\* waiting, if any), every task it found in the map, hence every task that
\* was live when it was called, has ended, and from the call on no task that
\* existed at the call starts its action.
C12_DrainedOfEarlier == [][C12_AmendedStep]_vars

\* cancel_all has returned after waiting for a task that was asleep and one
\* that was inside its action when it was called; neither the sleeper nor
\* any other task of before the call ran afterwards, and a task registered
\* during the wait is in the map.
C12_Witness ==
  /\ ca.st = "returned"
  /\ \E t, u \in 1..ca.upto :
       /\ reg[t].st = "done" /\ reg[t].out = "cancelled" /\ reg[t].runs = 0
       /\ reg[u].st = "done" /\ reg[u].out = "cancelled" /\ reg[u].runs = 1
  /\ \E k \in Keys : tasks[k] > ca.upto

\* The number of actions of the current event that _execute_action has taken.
Consumed == IF hd.st = "done" THEN Len(hd.acts) ELSE IF hd.st = "io" THEN hd.pos ELSE 0

\* The tasks registered for the i-th action of event e.
TasksOf(e, i) == {t \in TaskIds : tact[t].ev = e /\ tact[t].idx = i}

\* C13: action consumption.  The actions of a dispatch are taken by
\* _execute_action one by one in list order, each once.  An action without a
\* positive delay causes one call of _send by the handler and no
\* registration, whatever its key; an action with a positive delay causes no
\* call of _send by the handler and one registration, with the action's
\* delay, under its key, or under "<plugin>:<text>" when it has none; an
\* action not yet reached has caused nothing.  A task calls _send once when it
\* fires and not otherwise.
C13_ActionConsumption ==
  /\ Len(hlog) = Consumed
  /\ \A j \in 1..Len(hd.acts) :
       LET a == hd.acts[j]
           c == att[FromEvent(nev, j)]
       IN  IF j > Consumed
           THEN c.n = 0 /\ TasksOf(nev, j) = {}
           ELSE /\ hlog[j].idx = j
                /\ IF a.delay > 0
                   THEN /\ hlog[j].kind = "schedule"
                        /\ hlog[j].key = (IF a.key = "" THEN a.plugin \o ":" \o a.text
                                          ELSE a.key)
                        /\ c.n = 0
                        /\ Cardinality(TasksOf(nev, j)) = 1
                        /\ \A t \in TasksOf(nev, j) :
                             /\ reg[t].key = hlog[j].key
                             /\ reg[t].delay = a.delay
                             /\ tact[t].plugin = a.plugin /\ tact[t].text = a.text
                   ELSE /\ hlog[j].kind = "send"
                        /\ c.n = 1
                        /\ TasksOf(nev, j) = {}
  /\ \A t \in TaskIds : att[FromTask(t)].n = reg[t].runs /\ reg[t].runs <= 1
  /\ \A c \in Callers : att[c].n <= 1

\* A batch of two is done: its first action, immediate and carrying a key,
\* was sent by the handler; its second, delayed and without a key, was
\* registered under "<plugin>:<text>", and its task has fired and sent.
C13_Witness ==
  /\ hd.st = "done" /\ Len(hd.acts) = 2
  /\ hd.acts[1].delay = 0 /\ hd.acts[1].key = "k1"
  /\ att[FromEvent(nev, 1)].n = 1
  /\ hd.acts[2].delay > 0 /\ hd.acts[2].key = ""
  /\ \E t \in TasksOf(nev, 2) :
       reg[t].key = "a:x" /\ reg[t].runs = 1 /\ att[FromTask(t)].out = "ok"

\* The calls of _send that reached the transport.
HandedOver == {c \in Callers : att[c].out \in {"io", "ok", "failed", "cancelled"}}

\* C14: the send path degrades by skipping.  A call of _send that was denied
\* by the limiter, made in dry-run mode, or whose transport call failed has
\* returned no message id and has not raised, and its caller has not called
\* again: a task whose send ended so has ended without an exception leaving
\* _run, the handler has gone on to its next action.  Denied and dry-run
\* calls hand nothing to the transport, and in dry-run mode nothing at all is
\* handed over.
C14_SendDegrades ==
  /\ \A c \in Callers :
       att[c].out \in {"limited", "dry", "failed"} =>
         /\ ~att[c].mid
         /\ ~att[c].raised
         /\ att[c].n = 1
  /\ \A t \in TaskIds :
       att[FromTask(t)].out \in {"limited", "dry", "failed"} =>
         reg[t].st = "done" /\ reg[t].out = "completed" /\ reg[t].runs = 1
  /\ \A i \in 1..MaxBatch :
       (nev > 0 /\ att[FromEvent(nev, i)].out \in {"limited", "dry", "failed"}) =>
         (hd.st = "done" \/ hd.pos > i)
  /\ escaped = {}
  /\ Len(sent) = Cardinality(HandedOver)
  /\ dry => sent = <<>>
  /\ \A c \in Callers : att[c].out = "dry" => dry

\* The handler's first send failed in the transport and its second was
\* denied by the limiter, and the handler is done; a task's send failed too.
C14_Witness ==
  /\ hd.st = "done"
  /\ att[FromEvent(nev, 1)].out = "failed"
  /\ att[FromEvent(nev, 2)].out = "limited"
  /\ \E t \in TaskIds : att[FromTask(t)].out = "failed"

\* In dry-run mode the handler and a task have both called _send.
C14_WitnessDry ==
  /\ dry /\ nev > 0
  /\ \E i \in 1..MaxBatch : att[FromEvent(nev, i)].out = "dry"
  /\ \E t \in TaskIds : att[FromTask(t)].out = "dry"

\* The message passes the gate: it names the operator or replies to them.
Gated == Contains(bmsg.text, "me") \/ bmsg.is_reply_to_me

\* The trigger the message is, if any: the success phrase goes first.
IsCooldown == Contains(bmsg.text, "dazuo")
IsThrottled == ~IsCooldown /\ Contains(bmsg.text, "lingqi")

\* The duration announced by the message, in seconds, or None.
ParsedDuration ==
  IF IsCooldown
  THEN (IF ParseBiguanCooldownMinutes(bmsg.text) = None THEN None
        ELSE ParseBiguanCooldownMinutes(bmsg.text) * 60)
  ELSE IF IsThrottled THEN ParseLingqiCooldownSeconds(bmsg.text)
  ELSE None

\* on_message returned exactly one action: the canonical command under the
\* fixed key, with a delay in lo..hi.
OneAction(lo, hi) ==
  /\ Len(bout.acts) = 1
  /\ bout.acts[1].plugin = "biguan"
  /\ bout.acts[1].text = BiguanCmd
  /\ bout.acts[1].key = "biguan.next"
  /\ bout.acts[1].delay \in lo..hi

\* C16 as claimed: on either trigger, for a gated message with a parsable
\* duration, one action with delay = duration + buffer + jitter, the jitter
\* within the range configured for that trigger; otherwise no action.
C16_DelayWithBuffer ==
  bout.called =>
    IF Gated /\ ParsedDuration # None
    THEN IF IsCooldown
         THEN OneAction(ParsedDuration + bcfg.buffer + bcfg.cjmin,
                        ParsedDuration + bcfg.buffer + bcfg.cjmax)
         ELSE OneAction(ParsedDuration + bcfg.buffer + bcfg.rjmin,
                        ParsedDuration + bcfg.buffer + bcfg.rjmax)
    ELSE bout.acts = <<>>

\* C16, amended: for a gated message with a parsable duration, one action
\* with the canonical command under the fixed key; on the success trigger
\* its delay is minutes x 60 + buffer + a jitter within the cooldown range,
\* on the throttled trigger it is the announced seconds + a jitter within the
\* retry range, without the buffer; otherwise no action.
C16_DelayPerTrigger ==
  bout.called =>
    IF Gated /\ ParsedDuration # None
    THEN IF IsCooldown
         THEN OneAction(ParsedDuration + bcfg.buffer + bcfg.cjmin,
                        ParsedDuration + bcfg.buffer + bcfg.cjmax)
         ELSE OneAction(ParsedDuration + bcfg.rjmin, ParsedDuration + bcfg.rjmax)
    ELSE bout.acts = <<>>

\* A throttled message that names the operator without replying to them,
\* under a configuration with a buffer, has produced its action.
C16_Witness ==
  /\ bout.called /\ Len(bout.acts) = 1
  /\ IsThrottled /\ ~bmsg.is_reply_to_me
  /\ bcfg.buffer > 0 /\ bcfg.rjmin < bcfg.rjmax
  /\ bout.acts[1].delay = ParsedDuration + bcfg.rjmax

\* C17: cooldown reset.  A direct reply to the operator that announces the
\* reset of the cooldown (and is no other trigger) yields exactly one action:
\* the canonical command, under "biguan.next", with the minimum retry jitter
\* as its delay.
C17_ResetRetriesAtOnce ==
  (bout.called /\ bmsg.is_reply_to_me /\ Contains(bmsg.text, "reset")
     /\ ~IsCooldown /\ ~IsThrottled)
    => OneAction(bcfg.rjmin, bcfg.rjmin)

\* The time a task is due: its registration plus its delay.
DueOf(t) == tact[t].at + reg[t].delay

\* t1 and t2 are successive registrations of the cooldown-reactive key, t2
\* the last one, made while t1 had not fired.
Overrides(t1, t2) ==
  /\ t1 < t2
  /\ reg[t1].key = "biguan.next" /\ reg[t2].key = "biguan.next"
  /\ \A u \in TaskIds : (u > t1 /\ u # t2) => reg[u].key # "biguan.next"
  /\ reg[t1].runs = 0

\* What C15 asks of every state.
C15_State ==
  \A t1, t2 \in TaskIds :
    Overrides(t1, t2) =>
      /\ ~Live(t1)
      /\ att[FromTask(t1)].n = 0
      /\ att[FromTask(t2)].n <= 1
      /\ att[FromTask(t2)].n = 1 => att[FromTask(t2)].at = DueOf(t2)
      /\ now > DueOf(t2) => att[FromTask(t2)].n = 1

\* What C15 asks of every step.
C15_Step ==
  /\ C15_State'
  /\ \A t \in TaskIds :
       (Fired(t) /\ reg[t].key = "biguan.next") =>
         \A u \in TaskIds : u > t => reg[u].key # "biguan.next"

\* C15: the cooldown-reactive override, end to end.  When a second trigger
\* is observed while the timer of an earlier one is pending, the earlier
\* timer never fires and the later one fires once, calling the send path with
\* the canonical command exactly at the second trigger's time plus its delay,
\* also when that is before the first timer was due.  (Whether that one call
\* transmits is the limiter's and the transport's matter.)
C15_OverrideEndToEnd == [][C15_Step]_vars

\* A cooldown of a minute was pending; a throttling reply came and its
\* shorter timer fired and sent, long before the first was due.
C15_Witness ==
  \E t1, t2 \in TaskIds :
    /\ Overrides(t1, t2)
    /\ tact[t1].plugin = "biguan" /\ tact[t2].plugin = "biguan"
    /\ reg[t1].delay > WindowSeconds
    /\ DueOf(t2) < DueOf(t1)
    /\ reg[t1].st = "done" /\ reg[t1].out = "cancelled"
    /\ att[FromTask(t2)].out = "ok"
    /\ now = DueOf(t2)

(***************************************************************************)
(*                     The garden remediation feature                      *)
(***************************************************************************)
\* on_message was given a parsed status snapshot and nothing before the
\* parser took the message.
HandledStatus ==
  /\ gout.n = 1
  /\ gmsg.lead = "text" /\ gmsg.replies = {}
  /\ gmsg.status # NoStatus

\* The commands of the conditions a snapshot shows, in the order pest, weed,
\* drought, harvest.
ExpectedFixes(status) ==
  (IF status.has_insect THEN <<"cmd_insect">> ELSE <<>>)
    \o (IF status.has_weed THEN <<"cmd_weed">> ELSE <<>>)
    \o (IF status.has_drought THEN <<"cmd_water">> ELSE <<>>)
    \o (IF status.has_mature THEN <<"cmd_harvest">> ELSE <<>>)

\* C18: remediation order and spacing.  For every status snapshot the batch
\* starts with the poll action; the actions after it are the fixes for the
\* conditions present, in the order pest, weed, drought, harvest, followed by
\* at most one sow action; the k-th action after the poll (k = 0, 1, 2, ...)
\* has delay k x spacing; when something is mature the batch ends with
\* harvest and holds no sow action.
C18_RemediationOrder ==
  HandledStatus =>
    /\ Len(gout.acts) >= 1
    /\ gout.acts[1].text = "cmd_status"
    /\ LET after == Tail(gout.acts)
           fixes == ExpectedFixes(gmsg.status)
           n == Len(fixes)
       IN  /\ Len(after) \in {n, n + 1}
           /\ \A k \in 1..n : after[k].text = fixes[k]
           /\ \A k \in 1..Len(after) : after[k].delay = (k - 1) * gcfg.spacing
           /\ Len(after) = n + 1 => after[n + 1].text = "cmd_sow"
           /\ gmsg.status.has_mature =>
                /\ Len(after) = n
                /\ after[n].text = "cmd_harvest"
                /\ \A k \in 1..Len(after) : after[k].text # "cmd_sow"

\* A snapshot showed pests, weeds, drought and a mature plot next to an idle
\* one: four fixes, the harvest last at three spacings, and no sow.
C18_Witness ==
  /\ HandledStatus
  /\ gcfg.spacing = MaxSpacing
  /\ gmsg.status.has_insect /\ gmsg.status.has_weed /\ gmsg.status.has_drought
  /\ gmsg.status.has_mature /\ gmsg.status.has_idle
  /\ ~gout.before.seed_insufficient /\ ~gout.before.no_idle
  /\ Len(gout.acts) = 5
  /\ gout.acts[5].text = "cmd_harvest" /\ gout.acts[5].delay = 3 * MaxSpacing

\* on_message was given the harvest-completion reply: a text that is not a
\* command line and holds none of the reply texts looked for before it.
HandledHarvestReply ==
  /\ gout.n = 1
  /\ gmsg.lead = "text"
  /\ "harvested" \in gmsg.replies
  /\ gmsg.replies \cap {"noidle", "short", "sown"} = {}

\* C19: the harvest-completion reply.  In every state of the feature,
\* observing the harvest-completion reply yields exactly one sow action with
\* delay equal to the configured spacing, and clears the no-idle-slot block.
C19_HarvestReplySows ==
  HandledHarvestReply =>
    /\ gout.acts = <<SowAction(gcfg.spacing)>>
    /\ ~gst.no_idle

\* C19, amended: the harvest-completion reply clears the no-idle-slot block
\* in every state; it yields exactly one sow action with delay equal to the
\* configured spacing unless the seed stock was observed to be insufficient,
\* and then it yields no action.
C19_HarvestReplySowsUnlessNoSeed ==
  HandledHarvestReply =>
    /\ ~gst.no_idle
    /\ gst.seed_insufficient = gout.before.seed_insufficient
    /\ ~gout.before.seed_insufficient => gout.acts = <<SowAction(gcfg.spacing)>>
    /\ gout.before.seed_insufficient => gout.acts = <<>>

\* The no-idle-slot block was set when the harvest-completion reply came:
\* one sow action at the spacing delay, and the block is gone.
C19_Witness ==
  /\ HandledHarvestReply
  /\ gout.before.no_idle /\ ~gout.before.seed_insufficient
  /\ gcfg.spacing = MaxSpacing
  /\ Len(gout.acts) = 1 /\ gout.acts[1].text = "cmd_sow"
  /\ gout.acts[1].delay = MaxSpacing
  /\ ~gst.no_idle

\* The seed stock was known to be insufficient when the reply came: nothing
\* is emitted.
C19_WitnessNoSeed ==
  /\ HandledHarvestReply
  /\ gout.before.seed_insufficient
  /\ gout.acts = <<>>

\* C20: sow gating and recovery.  On a snapshot with nothing mature and an
\* idle slot the last emitted action is sow, unless the no-idle-slot block or
\* the seed-insufficient block is set; and neither block suppresses sowing
\* forever: for each block that is set there is a reply whose observation
\* clears it.
C20_SowGatingAndRecovery ==
  /\ (HandledStatus /\ gmsg.status.has_idle /\ ~gmsg.status.has_mature) =>
       ((gout.acts[Len(gout.acts)].text = "cmd_sow")
          <=> ~(gout.before.no_idle \/ gout.before.seed_insufficient))
  /\ gst.no_idle =>
       \E m \in GMessages : ~GardenOnMessage(gcfg, gst, m).st.no_idle
  /\ gst.seed_insufficient =>
       \E m \in GMessages : ~GardenOnMessage(gcfg, gst, m).st.seed_insufficient

\* The leading action of the batch a snapshot yielded.
PollAction == gout.acts[1]

\* The timers under the poll key that still count: registered, not finished
\* and not cancelled.
PendingPolls ==
  {t \in 1..nreg : reg[t].key = "garden.poll" /\ reg[t].st # "done" /\ ~reg[t].cancel}

\* The first action of every parsed snapshot is the status poll under the
\* fixed key, with delay = base when no remaining time is reported and
\* max(1, min(base, remaining + 10)) otherwise.
C21_PollDelay ==
  HandledStatus =>
    /\ Len(gout.acts) >= 1
    /\ PollAction.text = "cmd_status" /\ PollAction.key = "garden.poll"
    /\ LET rem == gmsg.status.min_remaining
       IN  PollAction.delay =
             IF rem = None THEN gcfg.base
             ELSE IF gcfg.base <= rem + 10
                  THEN (IF gcfg.base >= 1 THEN gcfg.base ELSE 1)
                  ELSE rem + 10

\* A snapshot is handled: what becomes of the poll timer.  With a positive
\* delay the poll key maps to a new timer with that delay and the timer that
\* was pending is cancelled; with delay 0 the poll goes to the send path at
\* once and the key's timer is left as it was.
C21_ReplaceStep ==
  nev' = nev + 1 =>
    LET d == gout'.acts[1].delay
        old == tasks["garden.poll"]
        new == tasks'["garden.poll"]
    IN  /\ d > 0 =>
              /\ new > nreg /\ reg'[new].key = "garden.poll" /\ reg'[new].delay = d
              /\ old # 0 => (reg'[old].cancel \/ reg'[old].st = "done")
        /\ d = 0 =>
              /\ new = old
              /\ att'[FromEvent(nev', 1)].n = 1

\* What the claim says of every snapshot: the new timer always replaces the
\* pending one.
C21_AlwaysReplaceStep ==
  nev' = nev + 1 =>
    LET old == tasks["garden.poll"]
        new == tasks'["garden.poll"]
    IN  /\ new > nreg /\ reg'[new].key = "garden.poll"
        /\ reg'[new].delay = gout'.acts[1].delay
        /\ old # 0 => (reg'[old].cancel \/ reg'[old].st = "done")

LoopFires == xfire'.n = xfire.n + 1

\* The task whose firing the step is.
FiringTask == Head(rq)

\* The start of the cycle the moment t lies in: the latest start time of day
\* at or before t.
CycleStartOf(t) ==
  CHOOSE b \in {d * DaySeconds + xcfg.hm : d \in 0..(t \div DaySeconds)} :
    /\ b <= t
    /\ t < b + DaySeconds

\* Whether, with the fields x as the firing leaves them, the start command
\* of a phase is due at t.
DeadlinePassed(x, t) == x.blocked = None \/ t >= x.blocked
DuePhase(x, t) ==
  IF x.first = None
  THEN IF t >= CycleStartOf(t) /\ DeadlinePassed(x, t) THEN 1 ELSE None
  ELSE IF x.second = None
  THEN IF t >= x.first + xcfg.offset /\ DeadlinePassed(x, t) THEN 2 ELSE None
  ELSE None

\* What C22 asks of every step.
C22_Step ==
  /\ LoopFires =>
       /\ xfire'.sent <=> DuePhase(xs', now) # None
       /\ xfire'.sent =>
            /\ xfire'.slot = DuePhase(xs', now)
            /\ xs'.pending = xfire'.slot
            /\ att'[FromTask(FiringTask)].n = 1
            /\ att'[FromTask(FiringTask)].at = now
       /\ ~xfire'.sent => att' = att
  /\ \A t \in XTaskIds : att'[FromTask(t)].n # att[FromTask(t)].n => LoopFires

\* C22: the ritual start is sent only when due.  A firing of the loop sends
\* the start command exactly when now >= cycle start and now >= the
\* cooldown-block deadline while phase 1 is open, or now >= phase-1
\* completion + offset and now >= the deadline while phase 2 is open; a
\* firing before that sends nothing, none after both phases of the cycle are
\* complete, and nothing but a firing of the loop sends the command.
C22_StartOnlyWhenDue == [][C22_Step]_vars

\* A firing found the deadline ahead and sent nothing; the next one, at the
\* deadline, sent the start command.
C22_Witness ==
  \E t1, t2 \in 1..nreg :
    /\ t1 < t2
    /\ reg[t1].st = "done" /\ reg[t1].runs = 1 /\ att[FromTask(t1)].n = 0
    /\ xs.blocked # None
    /\ att[FromTask(t2)].n = 1 /\ att[FromTask(t2)].at = xs.blocked
    /\ xfire.n = 2 /\ xfire.sent /\ xfire.at = xs.blocked

\* The timers of the loop that are pending: registered, not yet woken, not
\* cancelled.
PendingLoops ==
  {t \in 1..nreg : reg[t].key = QizhenKey /\ reg[t].st \in {"new", "sleep"} /\ ~reg[t].cancel}

\* A firing of the loop is in progress: its task awaits the transport.
FiringInProgress == \E t \in 1..nreg : reg[t].st = "act"

\* The step ends the firing of task t: the task had woken, or wakes in this
\* step, runs the loop and is finished afterwards.
EndsFiring(t) ==
  /\ reg[t].st \in {"sleep", "act"}
  /\ reg'[t].st = "done"
  /\ reg'[t].runs = 1

\* The delay a firing at time t that leaves the fields x registers the loop
\* with: the retry interval after a send, else the time to the desired
\* start, or to the next cycle's start when both phases are done.
ExpectedLoopDelay(x, t, didSend) ==
  LET late(start) == IF x.blocked # None /\ x.blocked > start THEN x.blocked ELSE start
  IN  IF didSend THEN xcfg.retry
      ELSE IF x.first = None THEN late(CycleStartOf(t)) - t
      ELSE IF x.second = None THEN late(x.first + xcfg.offset) - t
      ELSE CycleStartOf(t) + DaySeconds - t

\* The step registers the loop anew, with delay d.
RegistersLoop(d) ==
  /\ nreg' = nreg + 1
  /\ tasks'[QizhenKey] = nreg'
  /\ reg'[nreg'].key = QizhenKey
  /\ reg'[nreg'].delay = d
  /\ reg'[nreg'].st = "new" /\ ~reg'[nreg'].cancel

\* Once bootstrapped, and while no firing is in progress, exactly one timer
\* of the loop is pending.
OneLoopTimer ==
  (xboot = "yes" /\ ~FiringInProgress) => Cardinality(PendingLoops) = 1

C23_WitnessReplaced ==
  \E t \in 1..nreg :
    /\ reg[t].st = "done" /\ reg[t].runs = 1
    /\ att[FromTask(t)].out = "cancelled"
    /\ tasks[QizhenKey] > t
    /\ Cardinality(PendingLoops) = 1

\* The step handles a message (on_message is called).
MessageHandled == xn'.ev = xn.ev + 1

\* The step handles a reply that tells to wait before starting the ritual
\* again, with a duration that can be read.
CooldownReply ==
  /\ MessageHandled
  /\ xmsg'.lead = "text" /\ "cooldown" \in xmsg'.feats
  /\ xmsg'.dur # None

\* The reply is accepted: it is a direct reply to the operator, or the loop
\* sent the start command at most 90 s ago.
CooldownAccepted ==
  \/ xmsg'.reply
  \/ xs.last_sent # None /\ now - xs.last_sent <= GraceSeconds

\* The scheduler is left as it is.
SchedulerUntouched == UNCHANGED <<tasks, reg, nreg, rq>>

\* The fields a new cycle resets, and the others.
PhaseFields(x) == <<x.first, x.second, x.pending, x.invite_id>>
KeptFields(x) == <<x.blocked, x.last_sent, x.sched>>

\* The deadline never decreases.
DeadlineMonotone ==
  /\ xs.blocked # None => xs'.blocked # None /\ xs'.blocked >= xs.blocked

\* What an accepted reply does to the fields.
AcceptedEffect ==
  /\ xs'.blocked = IF xs.blocked # None /\ xs.blocked >= now + xmsg'.dur + 5
                   THEN xs.blocked ELSE now + xmsg'.dur + 5
  /\ xs'.pending = None

\* C24: the cooldown-block deadline.  A "wait D" reply is accepted only if
\* it is a direct reply to the operator or arrives within 90 s after the
\* loop's last start-command send; when accepted the deadline becomes
\* max(previous deadline, now + D + 5), the pending-phase marker is cleared
\* and the loop is re-registered to fire exactly at the deadline; the
\* deadline never decreases; and a rejected reply changes no state.
C24_CooldownDeadline ==
  [][/\ DeadlineMonotone
     /\ CooldownReply =>
          IF CooldownAccepted
          THEN /\ AcceptedEffect
               /\ RegistersLoop(xs'.blocked - now)
          ELSE /\ xs' = xs
               /\ SchedulerUntouched]_vars

\* C24, amended: as above, except that the loop is re-registered only once
\* the plugin is bootstrapped (before, an accepted reply raises the deadline
\* and registers nothing), and that a rejected reply changes no state other
\* than the reset of a new cycle, which every handled message performs
\* first: the deadline, the time of the last send and the scheduler are
\* left alone, and within the same cycle nothing changes.
C24_CooldownDeadlineBootstrapped ==
  [][/\ DeadlineMonotone
     /\ CooldownReply =>
          IF CooldownAccepted
          THEN /\ AcceptedEffect
               /\ IF xs.sched THEN RegistersLoop(xs'.blocked - now)
                  ELSE SchedulerUntouched
          ELSE /\ KeptFields(xs') = KeptFields(xs)
               /\ xs.cycle = xs'.cycle => xs' = xs
               /\ SchedulerUntouched]_vars

\* A reply that is not a direct reply came at the moment of the loop's send
\* and was accepted: the deadline is set, the marker cleared, and the loop
\* registered to fire at the deadline.
C24_Witness ==
  /\ xmsg.lead = "text" /\ "cooldown" \in xmsg.feats /\ ~xmsg.reply /\ xmsg.dur = MaxXDur
  /\ xs.last_sent # None
  /\ xout.at - xs.last_sent <= GraceSeconds
  /\ xs.blocked = xout.at + MaxXDur + 5
  /\ xs.pending = None
  /\ xout.resched = MaxXDur + 5
  /\ tasks[QizhenKey] # 0
  /\ reg[tasks[QizhenKey]].delay = MaxXDur + 5
  /\ now = xout.at

\* A reply that is not a direct reply came more than 90 s after the send
\* and was rejected.
C24_WitnessRejected ==
  /\ xmsg.lead = "text" /\ "cooldown" \in xmsg.feats /\ ~xmsg.reply /\ xmsg.dur = MaxXDur
  /\ xs.last_sent # None
  /\ xout.at - xs.last_sent > GraceSeconds
  /\ xs.blocked = None
  /\ xout.resched = None
  /\ now = xout.at

\* The step handles a "ritual complete" event: a text that on_message takes
\* to its success branch.
SuccessEvent ==
  /\ MessageHandled
  /\ xmsg'.lead = "text" /\ "success" \in xmsg'.feats
  /\ "cooldown" \notin xmsg'.feats /\ "assistcd" \notin xmsg'.feats
  /\ "invite" \in xmsg'.feats => xmsg'.mine

\* The event is the operator's: it is an edit of the invite recorded before,
\* or it mentions the operator.
IsOperators == xs.invite_id = xmsg'.id \/ xmsg'.mine

PhaseState(x) == <<x.first, x.second, x.pending>>

\* The success is counted for the pending phase.
SuccessCounted ==
  /\ xs'.first = IF xs.pending = 1 /\ xs.first = None THEN now ELSE xs.first
  /\ xs'.second = IF xs.pending = 2 /\ xs.second = None THEN now ELSE xs.second
  /\ xs'.pending = None
  /\ RegistersLoop(0)

\* C25: success attribution.  A "ritual complete" event counts as the
\* operator's success only if its message id is that of the recorded invite
\* or it mentions the operator, and only while a phase is pending; then that
\* phase's completion time is set unless already set, the marker is cleared
\* and the loop is re-registered with delay 0; an event that is not the
\* operator's, or that arrives while no phase is pending, changes no phase
\* state.
C25_SuccessAttribution ==
  [][SuccessEvent =>
       IF IsOperators /\ xs.pending \in {1, 2}
       THEN SuccessCounted
       ELSE /\ PhaseState(xs') = PhaseState(xs)
            /\ SchedulerUntouched]_vars

\* C25, amended: as above for an event handled in the cycle the fields
\* belong to; an event that is the first message handled in a new cycle
\* resets the phase state first, so it is never counted, whoever it is
\* from: both completion times and the marker are cleared and nothing is
\* registered.
C25_SuccessAttributionInCycle ==
  [][SuccessEvent =>
       IF xs'.cycle # xs.cycle
       THEN /\ PhaseState(xs') = <<None, None, None>>
            /\ SchedulerUntouched
       ELSE IF IsOperators /\ xs.pending \in {1, 2}
       THEN SuccessCounted
       ELSE /\ PhaseState(xs') = PhaseState(xs)
            /\ SchedulerUntouched]_vars

\* The invite with id 1 was recorded while phase 1 was pending; its edit,
\* which does not mention the operator, completed phase 1 and registered
\* the loop with delay 0.
C25_Witness ==
  /\ xmsg.lead = "text" /\ xmsg.feats = {"success"} /\ ~xmsg.mine /\ xmsg.id = 1
  /\ xs.invite_id = 1 /\ xs.invite_slot = 1
  /\ xs.first = xout.at /\ xs.second = None
  /\ xs.pending = None
  /\ xout.resched = 0
  /\ tasks[QizhenKey] = nreg /\ reg[nreg].delay = 0
  /\ now = xout.at

\* The step handles an event with a text that is not a command line, or is a
\* firing of the loop: the two places that look at the cycle.
TextHandled == MessageHandled /\ xmsg'.lead = "text"
EntersCycle == TextHandled \/ LoopFires

\* The cycle of the moment t: t's date at or after the start time of day,
\* the date before otherwise.
CycleOf(t) ==
  IF t % DaySeconds >= xcfg.hm THEN t \div DaySeconds
  ELSE (t \div DaySeconds) - 1

\* The event is the operator's own invite.
OwnInvite == "invite" \in xmsg'.feats /\ xmsg'.mine

\* The first handler of a new cycle starts from cleared fields: nothing of
\* the old cycle is left in them.
StartsFromReset ==
  /\ xs'.first = None /\ xs'.second = None
  /\ TextHandled =>
       /\ xs'.pending = None
       /\ xs'.invite_id = IF OwnInvite THEN xmsg'.id ELSE None
  /\ LoopFires =>
       /\ xs'.invite_id = None
       /\ xs'.pending = IF xfire'.sent THEN 1 ELSE None
       /\ xfire'.sent => xfire'.slot = 1

\* A handler within the cycle resets nothing: a completion time that is set
\* stays, a recorded invite stays recorded, and the marker is cleared only
\* by a cooldown reply or a success.
ResetsNothing ==
  /\ xs.first # None => xs'.first = xs.first
  /\ xs.second # None => xs'.second = xs.second
  /\ xs.invite_id # None => xs'.invite_id # None
  /\ xs.pending # None /\ xs'.pending = None =>
       /\ TextHandled
       /\ "cooldown" \in xmsg'.feats \/ "success" \in xmsg'.feats

\* The deadline crosses the boundary as it is, unless the handler is itself
\* an accepted cooldown reply, which can only raise it.
DeadlineCarried ==
  /\ DeadlineMonotone
  /\ ~(CooldownReply /\ CooldownAccepted) => xs'.blocked = xs.blocked

C26_Step ==
  /\ EntersCycle =>
       /\ xs'.cycle = CycleOf(now)
       /\ IF xs.cycle # CycleOf(now)
          THEN StartsFromReset /\ DeadlineCarried
          ELSE ResetsNothing
  /\ ~EntersCycle => xs'.cycle = xs.cycle /\ PhaseFields(xs') = PhaseFields(xs)

\* C26: cycle boundary and reset.  The cycle of a moment is its calendar
\* date at or after the start time of day and the previous date otherwise;
\* the first event or loop firing handled in a new cycle resets the two
\* completion times, the pending marker and the self-invite id before
\* anything else is evaluated; handlers within the same cycle never reset
\* them; and the cooldown-block deadline is carried across the boundary
\* unchanged.
C26_CycleReset == [][C26_Step]_vars

\* The loop sent the phase-1 start command in cycle 0, and the only event
\* handled so far arrived in cycle 1 and is not a cooldown reply or a
\* success: the marker the loop had set is cleared by the reset.
C26_Witness ==
  /\ xn.ev = 1
  /\ xfire.sent /\ xfire.slot = 1 /\ CycleOf(xfire.at) = 0
  /\ xs.last_sent = xfire.at
  /\ xout.at = now /\ CycleOf(now) = 1
  /\ xmsg.lead = "text" /\ xmsg.feats = {"invite"} /\ ~xmsg.mine
  /\ xs.cycle = 1
  /\ xs.pending = None /\ xs.first = None /\ xs.second = None

\* The step handles an invite that is not the operator's own.
OtherInvite ==
  /\ TextHandled
  /\ "invite" \in xmsg'.feats /\ ~xmsg'.mine
  /\ "cooldown" \notin xmsg'.feats

\* The step handles an "assist again after D" reply.
AssistReply ==
  /\ TextHandled
  /\ "assistcd" \in xmsg'.feats /\ xmsg'.dur # None
  /\ "cooldown" \notin xmsg'.feats
  /\ ~OtherInvite

\* The assist actions among the actions the handler returned.
AssistActions == SelectSeq(xout'.acts, LAMBDA a : a.text = "cmd_zhuzhen")

\* The assist deadline observed before the event lies in the future.
AssistCooldownActive == xs.assist_blocked # None /\ now < xs.assist_blocked

C27_Step ==
  /\ OtherInvite =>
       IF AssistCooldownActive
       THEN xout'.acts = <<>>
       ELSE /\ Len(xout'.acts) = 1
            /\ xout'.acts[1].text = "cmd_zhuzhen"
            /\ xout'.acts[1].delay = 0
  /\ AssistReply => xs'.assist_blocked = now + xmsg'.dur + 5
  /\ TextHandled /\ OwnInvite => AssistActions = <<>>

\* C27: assist arbitration.  An invite that is not the operator's own
\* yields exactly one assist action with delay 0 when no assist cooldown is
\* active and no action while the assist blocked-until deadline lies in the
\* future; an "assist again after D" reply sets that deadline to
\* now + D + 5; the operator's own invite never yields an assist action.
C27_AssistArbitration == [][C27_Step]_vars

\* The step is the end of the ritual's bootstrap.
BootstrapEnds == xboot # "yes" /\ xboot' = "yes"

\* A task is registered under key k.
Registered(k) == tasks'[k] # 0 /\ reg'[tasks'[k]].key = k

\* C28: ritual bootstrap.  Bootstrap of the enabled ritual feature
\* registers with the scheduler a task under key "xinggong.qizhen.loop" and
\* a task under key "xinggong.wenan.loop".
C28_BootstrapRegistersBoth ==
  [][BootstrapEnds => Registered(QizhenKey) /\ Registered(WenanKey)]_vars

\* The tasks bootstrap registered, and those of the quota slots among all.
BootTasks == {t \in ZTaskIds : zboot.done /\ t <= 4}
QuotaTasks == {t \in ZTaskIds : ztask[t].kind = "chuangong"}

\* The firing of task t has ended.
FiringEnded(t) == ztask[t].pc = "done"

\* The calls of send a quota firing has made are those of the pair: none
\* when a guard blocked it; else the context message without a reply
\* target and, once that send has returned an id, the quota command with
\* that id as its reply target; and no quota command when it returned none.
QuotaPair(t) ==
  LET zt == ztask[t]
  IN  /\ zt.guard \in {"disabled", "limit"} => zt.calls = <<>>
      /\ zt.guard = "open" =>
           /\ Len(zt.calls) >= 1
           /\ zt.calls[1] = [text |-> "xinde", reply |-> None]
           /\ zt.pc \in {"cmd", "done"} /\ zt.mid # None =>
                /\ Len(zt.calls) = 2
                /\ zt.calls[2] = [text |-> "cmd_chuangong", reply |-> zt.mid]
                /\ zt.mid \in 1..Len(sent)
           /\ zt.pc = "ctx" \/ zt.mid = None => Len(zt.calls) = 1

\* Bootstrap found the daily time and all three quota times passed, with
\* catch-up enabled, and the four firings it led to have ended.
RECURSIVE SumCalls(_)
SumCalls(T) ==
  IF T = {} THEN 0
  ELSE LET t == CHOOSE u \in T : TRUE
       IN  Len(ztask[t].calls) + SumCalls(T \ {t})

TimePassed(hm) == zboot.at % DaySeconds > hm
CaughtUpAll ==
  /\ zboot.done /\ zcfg.catch
  /\ TimePassed(zcfg.dm) /\ \A i \in 1..3 : TimePassed(zcfg.cg[i])
  /\ \A t \in BootTasks : FiringEnded(t)

\* No firing was blocked by a guard and every context send returned an id.
NothingWithheld ==
  /\ \A t \in BootTasks : ztask[t].guard = "open"
  /\ \A t \in BootTasks \cap QuotaTasks : ztask[t].mid # None

\* C29: the quota send pair.  Every quota-slot firing that no guard blocks
\* sends the context message and then the quota command with the id the
\* context send returned as its reply target, and no quota command when
\* the context send returned no id; with catch-up enabled and all four
\* times passed, bootstrap therefore leads to 1 + 3 x 2 = 7 sends.
C29_QuotaSendPair ==
  /\ \A t \in QuotaTasks : QuotaPair(t)
  /\ CaughtUpAll => SumCalls(BootTasks) = 7

\* C29, amended: the pair as above; bootstrap leads to the 7 sends when no
\* firing is blocked by a guard and every context send returns an id, and
\* to fewer otherwise.
C29_QuotaSendPairWhenReturned ==
  /\ \A t \in QuotaTasks : QuotaPair(t)
  /\ CaughtUpAll =>
       IF NothingWithheld THEN SumCalls(BootTasks) = 7 ELSE SumCalls(BootTasks) < 7

\* The four catch-up firings have ended with 7 sends, every quota command
\* carrying the id of its context message.
C29_Witness ==
  /\ CaughtUpAll
  /\ SumCalls(BootTasks) = 7
  /\ Len(sent) = 7
  /\ \A t \in BootTasks \cap QuotaTasks :
       /\ ztask[t].mid # None
       /\ ztask[t].calls[2].reply = ztask[t].mid

\* A quota firing has ended after the context send alone, which returned no
\* id.
C29_WitnessNoId ==
  \E t \in QuotaTasks :
    /\ FiringEnded(t) /\ ztask[t].guard = "open"
    /\ ztask[t].mid = None /\ Len(ztask[t].calls) = 1

\* The step is the plugin's bootstrap; it registers tasks 1 to 4 for the
\* daily action and the quota slots 1, 2, 3, in that order.
ZBootstrapEnds == ~zboot.done /\ zboot'.done

\* The time of day of the moment of bootstrap and its date; the configured
\* time of the i-th activity.
BootTime == now % DaySeconds
BootDate == now \div DaySeconds
TimeOf(i) == IF i = 1 THEN zcfg.dm ELSE zcfg.cg[i - 1]
KeyFor(i, d) == IF i = 1 THEN DianmaoKey(d) ELSE ChuangongKey(i - 1, d)

\* What the i-th activity is registered as: its key's date and its delay.
RegisteredAs(i, d, delay) ==
  /\ tasks'[KeyFor(i, d)] = i
  /\ reg'[i].key = KeyFor(i, d)
  /\ reg'[i].delay = delay

\* The number of activities before the i-th that satisfy P.
Earlier(i, P(_)) == Cardinality({j \in 1..(i - 1) : P(j)})

\* C30 as stated, a time being ahead until it has passed.
StillAhead(i) == BootTime <= TimeOf(i)
HasPassed(i) == BootTime > TimeOf(i)

\* C30: catch-up scheduling at bootstrap.  For each of the four configured
\* times: still ahead today, the action is registered for that time today;
\* passed with catch-up enabled, it is registered for today with delay 0,
\* spacing, 2 x spacing, ..., the offset growing by one spacing per
\* caught-up action in the order daily action, quota slot 1, 2, 3; passed
\* with catch-up disabled, it is registered for the same time tomorrow.
C30_CatchUpScheduling ==
  [][ZBootstrapEnds =>
       \A i \in 1..4 :
         IF StillAhead(i)
         THEN RegisteredAs(i, BootDate, TimeOf(i) - BootTime)
         ELSE IF zcfg.catch
         THEN RegisteredAs(i, BootDate, Earlier(i, HasPassed) * zcfg.spacing)
         ELSE RegisteredAs(i, BootDate + 1, TimeOf(i) + DaySeconds - BootTime)]_vars

\* With catch-up enabled, a time that is exactly the moment of bootstrap is
\* caught up like one that has passed.
CaughtUp(i) == zcfg.catch /\ BootTime >= TimeOf(i)

\* C30, amended: a time strictly ahead today, or exactly now with catch-up
\* disabled, is registered for that time today; a time that is now or has
\* passed, with catch-up enabled, is registered for today with delay
\* k x spacing, k being the number of earlier activities caught up in the
\* same way; a time that has passed, with catch-up disabled, is registered
\* for the same time tomorrow.
C30_CatchUpSchedulingFromNow ==
  [][ZBootstrapEnds =>
       \A i \in 1..4 :
         IF CaughtUp(i)
         THEN RegisteredAs(i, BootDate, Earlier(i, CaughtUp) * zcfg.spacing)
         ELSE IF BootTime <= TimeOf(i)
         THEN RegisteredAs(i, BootDate, TimeOf(i) - BootTime)
         ELSE RegisteredAs(i, BootDate + 1, TimeOf(i) + DaySeconds - BootTime)]_vars

\* Bootstrap found all four times passed, with catch-up enabled and a
\* positive spacing: the four tasks are registered for today with delays 0,
\* spacing, 2 x spacing, 3 x spacing.
C30_Witness ==
  /\ zboot.done /\ zcfg.catch /\ zcfg.spacing > 0
  /\ TimePassed(zcfg.dm) /\ \A i \in 1..3 : TimePassed(zcfg.cg[i])
  /\ \A i \in 1..4 :
       /\ reg[i].key = KeyFor(i, zboot.at \div DaySeconds)
       /\ reg[i].delay = (i - 1) * zcfg.spacing

\* Bootstrap with catch-up disabled: a passed time is registered for
\* tomorrow, a time ahead for today.
C30_WitnessTomorrow ==
  /\ zboot.done /\ ~zcfg.catch
  /\ TimePassed(zcfg.dm)
  /\ reg[1].key = DianmaoKey((zboot.at \div DaySeconds) + 1)
  /\ reg[1].delay = DaySeconds - MinuteSeconds
  /\ \E i \in 1..3 :
       /\ zcfg.cg[i] > zboot.at % DaySeconds
       /\ reg[i + 1].key = ChuangongKey(i, zboot.at \div DaySeconds)
       /\ reg[i + 1].delay = MinuteSeconds

\* The step starts the firing of task t: _runner is entered.
FiringStarts(t) == ztask[t].guard = "none" /\ ztask'[t].guard # "none"

\* The step handles an event with a text, a timer or the bootstrap: the
\* places that look at the day.
ZTextHandled == zn'.ev = zn.ev + 1 /\ zmsg'.kind # "blank"
LooksAtDay == ZTextHandled \/ ZBootstrapEnds \/ \E t \in ZTaskIds : FiringStarts(t)

\* The step is the first of these on a new calendar day.
NewDay == zs.date # now \div DaySeconds

\* The guards as the step finds them once the day is taken into account.
NeutralGuards == [done |-> FALSE, count |-> 0, disabled |-> FALSE]
GuardsOf(z) == [done |-> z.done, count |-> z.count, disabled |-> z.disabled]
GuardsInForce == IF NewDay THEN NeutralGuards ELSE GuardsOf(zs)

FiringBlocked(t) ==
  IF ztask[t].kind = "dianmao" THEN GuardsInForce.done
  ELSE GuardsInForce.disabled \/ GuardsInForce.count >= 3

\* What a text does to guards g.
AfterText(g) ==
  [done |-> g.done \/ zmsg'.kind = "done",
   disabled |-> g.disabled \/ zmsg'.kind = "hint",
   count |-> IF zmsg'.kind = "limit" THEN 3
             ELSE IF zmsg'.kind = "count" /\ zmsg'.total = 3 /\ zmsg'.n \in 0..3
             THEN zmsg'.n
             ELSE g.count]

C31_Step ==
  /\ \A t \in ZTaskIds :
       FiringStarts(t) =>
         IF FiringBlocked(t)
         THEN /\ ztask'[t].calls = <<>>
              /\ att' = att /\ sent' = sent
         ELSE Len(ztask'[t].calls) >= 1
  /\ LooksAtDay =>
       /\ zs'.date = now \div DaySeconds
       /\ GuardsOf(zs') = IF ZTextHandled THEN AfterText(GuardsInForce) ELSE GuardsInForce
  /\ ~LooksAtDay => zs' = zs

\* C31: day-scoped guards.  A firing of the daily action sends nothing
\* when "already done today" is set, a firing of a quota slot sends nothing
\* when the quota is disabled or the counter is >= 3; the three guards
\* return to their neutral values at the first event or timer handled on a
\* new calendar day, before the guard is checked, and are never reset
\* within the same day.
C31_DayScopedGuards == [][C31_Step]_vars

\* The only message so far set "already done today", the fields are
\* neutral again on day 2, and the daily action of day 2 fired unblocked.
C31_Witness ==
  /\ zn.ev = 1 /\ zmsg.kind = "done"
  /\ zs.date = 2 /\ GuardsOf(zs) = NeutralGuards
  /\ \E t \in ZTaskIds :
       /\ ztask[t].kind = "dianmao" /\ ztask[t].date = 2
       /\ ztask[t].guard = "open" /\ Len(ztask[t].calls) = 1

\* A quota slot fired while the counter was at 3 and sent nothing.
C31_WitnessBlocked ==
  \E t \in ZTaskIds :
    /\ ztask[t].kind = "chuangong" /\ ztask[t].pc = "done"
    /\ ztask[t].guard = "limit" /\ ztask[t].calls = <<>>
    /\ att[FromTask(t)].n = 0

\* The step makes a call of send for task t, or ends one: sent, throttled
\* or failed.
SendStep(t) ==
  \/ Len(ztask'[t].calls) > Len(ztask[t].calls)
  \/ att'[FromTask(t)] # att[FromTask(t)]

\* The counter changes through an acknowledgement "N/3", through the text
\* of the reached limit, or through the reset of a new day.
CounterAcknowledged ==
  /\ ZTextHandled /\ zmsg'.kind = "count" /\ zmsg'.total = QuotaLimit
  /\ zs'.count = zmsg'.n
CounterAtLimit == ZTextHandled /\ zmsg'.kind = "limit" /\ zs'.count = QuotaLimit
CounterReset == LooksAtDay /\ NewDay /\ zs'.count = 0

C32_Step ==
  /\ zs'.count \in 0..QuotaLimit
  /\ zs'.count # zs.count => CounterAcknowledged \/ CounterAtLimit \/ CounterReset
  /\ \A t \in ZTaskIds :
       SendStep(t) =>
         zs'.count = IF FiringStarts(t) THEN GuardsInForce.count ELSE zs.count

\* C32: the quota counter lies in 0..3 and changes only through an observed
\* "N/3 today" acknowledgement (to N), an observed "limit reached" text (to
\* 3) or the reset of a new day (to 0); a send of the context message or of
\* the quota command, sent, throttled or failed, leaves it unchanged.
C32_QuotaCounter == [][C32_Step]_vars

\* A quota slot sent its context message and its command while the counter
\* stood at 2 after an acknowledgement.
C32_Witness ==
  /\ zmsg.kind = "count" /\ zs.count = QuotaLimit - 1
  /\ \E t \in ZTaskIds :
       /\ ztask[t].kind = "chuangong" /\ ztask[t].pc = "done"
       /\ Len(ztask[t].calls) = 2
       /\ att[FromTask(t)].out = "ok"

\* A quota slot's send was throttled and the counter is unchanged at 0.
C32_WitnessThrottled ==
  /\ zs.count = 0
  /\ \E t \in ZTaskIds :
       /\ ztask[t].kind = "chuangong" /\ ztask[t].pc = "done"
       /\ att[FromTask(t)].out = "limited"

\* The firing of task t completes in the step.
FiringCompletes(t) == ztask[t].pc # "done" /\ ztask'[t].pc = "done"

\* The tasks the step registers.
NewTasks == (nreg + 1)..nreg'

\* The step registers the occurrence of t's slot that follows now, under
\* the key of that slot and date, as a pending timer.
RegistersNext(t) ==
  LET next == NextOccurrence(now, ztask[t].hm)
      k == ZKey(ztask[t].kind, ztask[t].slot, next \div DaySeconds)
  IN  \E u \in NewTasks :
        /\ ztask'[u].kind = ztask[t].kind /\ ztask'[u].slot = ztask[t].slot
        /\ ztask'[u].date = next \div DaySeconds
        /\ reg'[u].key = k /\ tasks'[k] = u
        /\ reg'[u].st = "new" /\ ~reg'[u].cancel /\ reg'[u].delay = next - now

\* Two registered tasks have the same key exactly when they are of the same
\* activity, slot and occurrence date.
KeysApart ==
  \A t, u \in 1..nreg' :
    (reg'[t].key = reg'[u].key) <=>
      /\ ztask'[t].kind = ztask'[u].kind
      /\ ztask'[t].slot = ztask'[u].slot
      /\ ztask'[t].date = ztask'[u].date

\* A registration leaves the timers that were pending as they were.
OthersKept ==
  \A t \in 1..nreg :
    /\ ~reg'[t].cancel
    /\ (reg[t].st \in {"new", "sleep"} /\ ztask'[t].pc = "wait") =>
         (reg'[t] = reg[t] /\ tasks'[reg[t].key] = t)

\* The i-th activity has a pending timer, or its firing is under way.
PendingFor(i) ==
  \E t \in 1..nreg' :
    /\ ztask'[t].kind = ZActivities(zcfg)[i].kind
    /\ ztask'[t].slot = ZActivities(zcfg)[i].slot
    /\ ~reg'[t].cancel
    /\ \/ reg'[t].st \in {"new", "sleep"} /\ tasks'[reg'[t].key] = t
       \/ reg'[t].st = "act"

C33_Step ==
  /\ KeysApart
  /\ nreg' > nreg => OthersKept
  /\ \A t \in ZTaskIds :
       /\ FiringStarts(t) => (FiringCompletes(t) \/ reg'[t].st = "act")
       /\ FiringCompletes(t) => RegistersNext(t)
       /\ reg'[t].out # "cancelled"
  /\ zboot'.done => \A i \in 1..4 : PendingFor(i)

\* C33: per-occurrence keys and recurrence.  Every occurrence of the daily
\* action or of a quota slot is registered under a key of its own
\* (activity, slot, occurrence date), so that registering one never cancels
\* the pending timer of another slot or day; every firing, whether it sent,
\* skipped on a guard or was throttled, registers the next occurrence of
\* its slot, so that each of the four activities has a pending timer after
\* its firing completes.
C33_KeysAndRecurrence == [][C33_Step]_vars

\* Of the same quota slot one firing sent, one was blocked by a guard and
\* one was throttled or sent, each on its own date or key, and a timer is
\* pending for the slot.
C33_Witness ==
  \E t, u \in ZTaskIds :
    /\ t < u /\ u <= nreg
    /\ ztask[t].kind = "chuangong" /\ ztask[u].kind = "chuangong"
    /\ ztask[t].slot = ztask[u].slot
    /\ ztask[t].pc = "done" /\ ztask[t].guard = "open" /\ att[FromTask(t)].out = "ok"
    /\ ztask[u].pc = "wait" /\ reg[u].st = "sleep"
    /\ ztask[u].date = ztask[t].date + 1
    /\ \E v \in ZTaskIds :
         ztask[v].pc = "done" /\ ztask[v].guard \in {"done", "disabled", "limit"}

\* A firing was throttled and its slot's next occurrence is pending.
C33_WitnessThrottled ==
  \E t, u \in ZTaskIds :
    /\ ztask[t].pc = "done" /\ att[FromTask(t)].out = "limited"
    /\ ztask[u].kind = ztask[t].kind /\ ztask[u].slot = ztask[t].slot
    /\ ztask[u].pc = "wait" /\ reg[u].st = "sleep" /\ tasks[reg[u].key] = u

\* The bounds given to SlidingWindowRateLimiter are invalid.
InvalidWindow == lc.sw.max < 1 \/ lc.sw.win < 1

\* C34: constructing a SlidingWindowRateLimiter with max_events < 1 or
\* window_seconds < 1 fails with an invalid-configuration error and yields
\* no limiter; with both >= 1 the construction succeeds with an empty
\* window.
C34_WindowConstruction ==
  lc.sw.called =>
    IF InvalidWindow
    THEN lc.sw.out.err = "ValueError" /\ ~lc.sw.out.built
    ELSE /\ lc.sw.out.err = "none" /\ lc.sw.out.built
         /\ lc.sw.out.max = lc.sw.max /\ lc.sw.out.win = lc.sw.win
         /\ lc.sw.out.events = <<>>

\* A construction with a valid max_events and window_seconds = 0 failed.
C34_Witness ==
  /\ lc.sw.called /\ lc.sw.max >= 1 /\ lc.sw.win = 0
  /\ lc.sw.out.err = "ValueError" /\ ~lc.sw.out.built

\* A construction with both bounds valid succeeded.
C34_WitnessBuilt == lc.sw.called /\ ~InvalidWindow /\ lc.sw.out.built

\* C35: rate-limit bounds fail fast.  Constructing the RateLimiter with a
\* global per-minute quota < 1 or a per-feature per-minute quota < 1 fails
\* at construction, so that no allow() or next_allowed_in() call on a
\* constructed RateLimiter raises an invalid-configuration error.
C35_BoundsFailFast ==
  /\ lc.rl.called => (lc.rl.built <=> (lc.rl.g >= 1 /\ lc.rl.p >= 1))
  /\ lc.rl.built => lc.call.err = "none"

\* The number of events of a window that are younger than 60 s at time t.
Young(ev, t) == Cardinality({i \in 1..Len(ev) : ev[i] > t - WindowSeconds})

\* The sum of that number over the windows of the plugins in S.
RECURSIVE YoungOver(_, _)
YoungOver(S, t) ==
  IF S = {} THEN 0
  ELSE LET p == CHOOSE q \in S : TRUE
       IN  Young(per[p], t) + YoungOver(S \ {p}, t)

\* The times from now on that the model's clock covers, and a window more.
TimesFromNow == now..(MaxClock + WindowSeconds)

\* C38: window consistency.  In every reachable state of the RateLimiter
\* and at every time from now on, the number of events of the global window
\* that are younger than 60 s equals the sum over the features of the
\* events younger than 60 s in the feature's window.
C38_WindowConsistency ==
  \A t \in TimesFromNow : Young(glob, t) = YoungOver(Plugins, t)

\* The global window has been pruned of an event that a feature's window
\* still holds, and both features have been admitted.
C38_Witness ==
  /\ glob # <<>>
  /\ \A p \in Plugins : per[p] # <<>>
  /\ \E p \in Plugins : Head(per[p]) <= now - WindowSeconds
  /\ \A i \in 1..Len(glob) : glob[i] > now - WindowSeconds

\* The firing of task t ends with the loop registering itself while t is
\* the task of the loop's key: schedule() is called by the task it cancels.
SelfReschedules(t) == EndsFiring(t) /\ ~reg[t].cancel /\ tasks[QizhenKey] = t

\* The task the step registers is live: in the map under the loop's key,
\* not cancelled, and about to start its sleep.
NewTaskLive ==
  /\ nreg' = nreg + 1
  /\ tasks'[QizhenKey] = nreg'
  /\ reg'[nreg'].key = QizhenKey
  /\ reg'[nreg'].st = "new" /\ ~reg'[nreg'].cancel
  /\ InQueue(rq', nreg')

\* What the firing of t did before it registered the loop stands: the
\* fields the loop set, the send it made and the outcome of that send.
FiringStands(t) ==
  /\ xs' = IF reg[t].st = "sleep" THEN QizhenLoop(xcfg, xs, now).x ELSE xs
  /\ att'[FromTask(t)].out # "cancelled"
  /\ att'[FromTask(t)].n = IF xfire'.sent THEN 1 ELSE 0
  /\ Len(sent') >= Len(sent)
  /\ att'[FromTask(t)].out = "ok" => sent'[Len(sent')].plugin = XingName

\* A pending timer is cancelled only by the handling of a message, never by
\* the end of a firing; and when it wakes uncancelled it fires, not before
\* its delay has passed.
TimerKept(u) ==
  /\ (reg[u].st \in {"new", "sleep"} /\ ~reg[u].cancel /\ reg'[u].cancel) => MessageHandled
  /\ (reg[u].st = "new" /\ reg'[u].st = "sleep") => reg'[u].due = now + reg[u].delay
  /\ (reg[u].st = "sleep" /\ ~reg[u].cancel /\ reg'[u].st # "sleep") =>
       (reg'[u].runs = 1 /\ now >= reg[u].due)

C36_Step ==
  /\ \A t \in XTaskIds : SelfReschedules(t) => (NewTaskLive /\ FiringStands(t))
  /\ \A u \in XTaskIds : TimerKept(u)

\* C36: self-rescheduling from inside a running task.  When the ritual
\* loop running under "xinggong.qizhen.loop" calls schedule() under that
\* key itself, the newly registered task stays live (it is not cancelled
\* with the running task and the running task's cleanup does not remove
\* it) and fires after its delay; what the running firing did before the
\* re-registration, its send and its state updates, is not undone.
C36_SelfReschedule == [][C36_Step]_vars

\* With no message handled, a firing sent the start command and registered
\* the loop, and the task it registered has fired in its turn.
C36_Witness ==
  /\ xn.ev = 0
  /\ \E t \in 1..nreg :
       /\ t < nreg
       /\ reg[t].st = "done" /\ reg[t].runs = 1 /\ att[FromTask(t)].out = "ok"
       /\ reg[t + 1].runs = 1 /\ reg[t + 1].delay > 0
       /\ xs.pending # None

\* Task t reaches its end of life in the step: it finishes, fails or is
\* cancelled, and its finally block has run.
EndOfLife(t) == reg[t].st \in {"sleep", "act"} /\ reg'[t].st = "done"

\* cancel_all clears the map in the step.
CancelAllCalled == ca.st = "idle" /\ ca'.st # "idle"

\* The end of t1 leaves the live task t2 that replaced it in the map and as
\* it was, its queued step included.
ReplacementKept(t1, t2) ==
  (t2 # t1 /\ tasks[reg[t1].key] = t2 /\ reg[t2].st # "done") =>
    /\ tasks'[reg[t1].key] = t2
    /\ reg'[t2] = reg[t2]
    /\ InQueue(rq, t2) => InQueue(rq', t2)

\* A live task is cancelled only by a later schedule() under its key or by
\* cancel_all; when it wakes uncancelled, its action starts.
FiresUnlessReplaced(t2) ==
  /\ (~reg[t2].cancel /\ reg'[t2].cancel) =>
       \/ nreg' > nreg /\ reg'[nreg'].key = reg[t2].key
       \/ CancelAllCalled
  /\ (reg[t2].st = "sleep" /\ ~reg[t2].cancel /\ reg'[t2].st # "sleep") =>
       reg'[t2].runs = 1

\* The map changes only in schedule(), in the finally block of an ending
\* task and in cancel_all: the three places that hold the lock.
MapUnderLock ==
  tasks' # tasks => \/ nreg' > nreg
                    \/ \E t \in TaskIds : EndOfLife(t)
                    \/ CancelAllCalled

C37_Step ==
  /\ \A t1, t2 \in TaskIds : EndOfLife(t1) => ReplacementKept(t1, t2)
  /\ \A t \in TaskIds :
       (EndOfLife(t) /\ nreg' > nreg) =>
         (tasks'[reg[t].key] = nreg' /\ reg'[nreg'].st = "new" /\ ~reg'[nreg'].cancel)
  /\ \A t2 \in TaskIds : FiresUnlessReplaced(t2)
  /\ MapUnderLock

\* C37: replace versus cleanup.  Under every interleaving of schedule(k)
\* replacing task T1 by T2 with T1's end-of-life cleanup (after finishing,
\* being cancelled or failing), T1's cleanup never removes T2 from the map
\* of live tasks and never prevents T2 from firing; the map is read and
\* written only inside the scheduler's lock.
C37_ReplaceVersusCleanup == [][C37_Step]_vars

\* T1 had started its action when it was replaced by T2; T1 has ended
\* cancelled, T2 is still the key's task and has fired.
C37_Witness ==
  \E t1, t2 \in TaskIds :
    /\ t1 < t2 /\ reg[t1].key = reg[t2].key
    /\ reg[t1].st = "done" /\ reg[t1].out = "cancelled" /\ reg[t1].runs = 1
    /\ tasks[reg[t2].key] = t2
    /\ reg[t2].runs = 1

\* C39: phase ordering.  After any sequence of inbound events and loop
\* firings of the ritual, phase 2 is never marked pending and never
\* recorded complete in a cycle whose phase 1 is not recorded complete, and
\* phase 1 is never marked pending once it is recorded complete in the
\* current cycle.
C39_PhaseOrdering ==
  /\ xs.second # None => xs.first # None
  /\ xs.pending = 2 => xs.first # None
  /\ xs.pending = 1 => xs.first = None
  /\ xs.pending \in {None, 1, 2}

\* Both phases are recorded complete, the second not before the first.
C39_Witness ==
  /\ xs.first # None /\ xs.second # None /\ xs.second >= xs.first
  /\ xs.pending = None

\* Phase 2 is marked pending, phase 1 being recorded complete.
C39_WitnessPending == xs.pending = 2 /\ xs.first # None /\ xs.second = None

\* The step registers a timer under the poll key.
PollRegistered == \E u \in (nreg + 1)..nreg' : reg'[u].key = "garden.poll"

\* The step handles an event whose text the parser reads as a status
\* snapshot and that no earlier branch of on_message took.
SnapshotHandled ==
  /\ nev' = nev + 1
  /\ gmsg'.lead = "text" /\ gmsg'.replies = {} /\ gmsg'.status # NoStatus

\* The poll of task t fired and its send ends in the step without a message
\* sent: denied by the limiter, suppressed by dry-run or failed in the
\* transport.
PollSendLost(t) ==
  /\ reg[t].key = "garden.poll"
  /\ reg[t].st \in {"sleep", "act"} /\ reg'[t].st = "done" /\ reg'[t].runs = 1
  /\ att'[FromTask(t)].out \in {"limited", "dry", "failed"}

C40_Step ==
  /\ PollRegistered => SnapshotHandled
  /\ \A t \in TaskIds : PollSendLost(t) => PendingPolls' = {}

\* C40: the poll loop is reply-driven.  The remediation feature registers
\* its next status poll only while handling a parsed status snapshot; so
\* when a fired poll's send is denied by the rate limiter, suppressed by
\* dry-run or lost to a transport fault, no "garden.poll" timer is pending
\* afterwards, and none is registered until another snapshot is observed.
C40_PollReplyDriven == [][C40_Step]_vars

\* A poll fired and its send failed in the transport; a text that is no
\* snapshot has been handled since, and no poll timer is pending.
C40_Witness ==
  /\ nev = MaxAppEvents /\ hd.st = "done"
  /\ gmsg.status = NoStatus
  /\ PendingPolls = {}
  /\ \E t \in 1..nreg :
       /\ reg[t].key = "garden.poll" /\ reg[t].st = "done" /\ reg[t].runs = 1
       /\ att[FromTask(t)].out = "failed"

\* A fired poll was denied by the limiter, and no poll timer is pending.
C40_WitnessLimited ==
  /\ PendingPolls = {}
  /\ \E t \in 1..nreg :
       /\ reg[t].key = "garden.poll" /\ reg[t].st = "done" /\ reg[t].runs = 1
       /\ att[FromTask(t)].out = "limited"

\* A fired poll was suppressed by dry-run, and no poll timer is pending.
C40_WitnessDryRun ==
  /\ PendingPolls = {}
  /\ \E t \in 1..nreg :
       /\ reg[t].key = "garden.poll" /\ reg[t].st = "done" /\ reg[t].runs = 1
       /\ att[FromTask(t)].out = "dry"

====
